---------------------------- MODULE Spec2Model ----------------------------
(***************************************************************************)
(* Shepherd's Forest Rescue: the fixed-timestep game loop (Game.js), the   *)
(* input edge flags (InputManager.js), the tile physics (Physics.js), the  *)
(* player (Player.js) and the per-tick world step (GameScene.js).          *)
(*                                                                         *)
(* Numbers.  JavaScript numbers are modelled as exact fixed-point          *)
(* integers:                                                               *)
(*   - real time in units of 1/TimePerMs ms, so that the fixed step        *)
(*     1000/60 ms is the integer FixedTimeStep;                            *)
(*   - velocities in units of 1/VelPerPx px/s, so that 19.5 px/s (falling  *)
(*     gravity per tick) and repeated halving are exact;                   *)
(*   - positions in units of 1/PosPerPx px with PosPerPx = 60 * VelPerPx,  *)
(*     so that "position += velocity * dt" with dt = 1/60 s is the integer *)
(*     addition position + velocity;                                       *)
(*   - the per-tick timers (coyote, jump buffer) in units of 1/TimerPerTick*)
(*     of a tick.                                                          *)
(***************************************************************************)
EXTENDS Integers, Sequences, FiniteSets, TLC

TimePerMs == 3
VelPerPx == 64
PosPerPx == 60 * VelPerPx
TimerPerTick == 10

Px(n) == n * PosPerPx
Vel(n) == n * VelPerPx

Min(a, b) == IF a < b THEN a ELSE b
Max(a, b) == IF a > b THEN a ELSE b
Abs(a) == IF a < 0 THEN -a ELSE a

(***************************************************************************)
(* Game.constructor                                                        *)
(***************************************************************************)
FixedTimeStep == (1000 * TimePerMs) \div 60
\* a faulty variant: the delta is not capped before 200 ms
LateDeltaCap == 200 * TimePerMs
MaxDeltaTime == 100 * TimePerMs

(***************************************************************************)
(* Physics.constructor                                                     *)
(***************************************************************************)
Gravity == 900
MaxFallSpeed == 450
\* gravity * fallGravityMultiplier (1.3) * dt, and gravity * 1.0 * dt, per tick
GravityRiseStep == (Gravity * VelPerPx) \div 60
GravityFallStep == (Gravity * 13 * VelPerPx) \div 600

(***************************************************************************)
(* Tilemap (LevelLoader: tileSize 32, row-major data) and GameScene's      *)
(* solidTiles.  A tilemap is [width, height, data].                        *)
(***************************************************************************)
TileSizePx == 32
TileSize == Px(TileSizePx)
SolidTiles == {1, 2, 3, 4, 5, 7}
WaterTile == 6

InGrid(tm, row, col) ==
    row >= 0 /\ row < tm.height /\ col >= 0 /\ col < tm.width

\* tilemap.data[row * width + col]; an index past the end of the array reads
\* undefined, which is in no list of tile ids
Undefined == 0 - 1

TileAt(tm, row, col) ==
    IF row * tm.width + col + 1 \in DOMAIN tm.data
    THEN tm.data[row * tm.width + col + 1]
    ELSE Undefined

IsSolidAt(tm, row, col) ==
    InGrid(tm, row, col) /\ TileAt(tm, row, col) \in SolidTiles

(***************************************************************************)
(* Entity getters and Physics helpers                                      *)
(***************************************************************************)
CenterX(e) == e.x + (e.width \div 2)
CenterY(e) == e.y + (e.height \div 2)

GetBounds(e) ==
    [x |-> e.x + e.hitboxOffsetX, y |-> e.y + e.hitboxOffsetY,
     width |-> e.hitboxWidth, height |-> e.hitboxHeight]

CheckAABB(a, b) ==
    /\ a.x < b.x + b.width
    /\ a.x + a.width > b.x
    /\ a.y < b.y + b.height
    /\ a.y + a.height > b.y

TileRect(row, col) ==
    [x |-> col * TileSize, y |-> row * TileSize,
     width |-> TileSize, height |-> TileSize]

CollidesWith(a, b) == CheckAABB(GetBounds(a), GetBounds(b))

\* a faulty variant: gravity without the terminal velocity
ApplyGravityUncapped(e) ==
    IF ~e.isGrounded /\ ~e.isOnPlatform
    THEN LET step == IF e.velocityY > 0 THEN GravityFallStep ELSE GravityRiseStep
         IN [e EXCEPT !.velocityY = e.velocityY + step]
    ELSE e

ApplyGravity(e) ==
    IF ~e.isGrounded /\ ~e.isOnPlatform
    THEN LET step == IF e.velocityY > 0 THEN GravityFallStep ELSE GravityRiseStep
         IN [e EXCEPT !.velocityY = Min(e.velocityY + step, Vel(MaxFallSpeed))]
    ELSE e

UpdatePosition(e) ==
    [e EXCEPT !.x = e.x + e.velocityX, !.y = e.y + e.velocityY]

(***************************************************************************)
(* Physics.resolveHorizontalCollision.  The loop tests every tile of the   *)
(* band against the bounds taken once before the loop, and every hit       *)
(* overwrites entity.x: the last hit in row-major order decides.           *)
(***************************************************************************)
HorizontalHits(e, tm) ==
    LET b == GetBounds(e)
        left == b.x \div TileSize
        right == (b.x + b.width - Px(1)) \div TileSize
        top == (b.y + Px(2)) \div TileSize
        bottom == (b.y + b.height - Px(4)) \div TileSize
    IN {rc \in (top..bottom) \X (left..right) :
           IsSolidAt(tm, rc[1], rc[2]) /\ CheckAABB(b, TileRect(rc[1], rc[2]))}

LastHit(hits) ==
    CHOOSE rc \in hits :
        \A o \in hits : o[1] < rc[1] \/ (o[1] = rc[1] /\ o[2] <= rc[2])

FirstHit(hits) ==
    CHOOSE rc \in hits :
        \A o \in hits : o[1] > rc[1] \/ (o[1] = rc[1] /\ o[2] >= rc[2])

\* a faulty variant: the side is chosen by the sign of velocityX, and a body
\* with velocityX = 0 is left where it is
ResolveHorizontalByVelocity(e, tm) ==
    LET hits == HorizontalHits(e, tm)
    IN IF hits = {} THEN e
       ELSE LET tileX == LastHit(hits)[2] * TileSize
            IN [e EXCEPT
                 !.x = IF e.velocityX > 0
                       THEN tileX - e.hitboxWidth - e.hitboxOffsetX
                       ELSE IF e.velocityX < 0
                       THEN tileX + TileSize - e.hitboxOffsetX
                       ELSE @,
                 !.velocityX = 0]

\* a faulty variant: the body is pushed along the axis of the smaller
\* penetration, so a tile entered less deep from above or below than from
\* the side does not move it horizontally
ResolveHorizontalByDepth(e, tm) ==
    LET hits == HorizontalHits(e, tm)
    IN IF hits = {} THEN e
       ELSE LET b == GetBounds(e)
                tileX == LastHit(hits)[2] * TileSize
                tileY == LastHit(hits)[1] * TileSize
                depthX == Min(b.x + b.width - tileX, tileX + TileSize - b.x)
                depthY == Min(b.y + b.height - tileY, tileY + TileSize - b.y)
                entityCenterX == b.x + (b.width \div 2)
                tileCenterX == tileX + (TileSize \div 2)
            IN IF depthX > depthY THEN [e EXCEPT !.velocityX = 0]
               ELSE [e EXCEPT
                       !.x = IF entityCenterX < tileCenterX
                             THEN tileX - e.hitboxWidth - e.hitboxOffsetX
                             ELSE tileX + TileSize - e.hitboxOffsetX,
                       !.velocityX = 0]

ResolveHorizontalCollision(e, tm) ==
    LET hits == HorizontalHits(e, tm)
    IN IF hits = {} THEN e
       ELSE LET b == GetBounds(e)
                tileX == LastHit(hits)[2] * TileSize
                entityCenterX == b.x + (b.width \div 2)
                tileCenterX == tileX + (TileSize \div 2)
            IN [e EXCEPT
                 !.x = IF entityCenterX < tileCenterX
                       THEN tileX - e.hitboxWidth - e.hitboxOffsetX
                       ELSE tileX + TileSize - e.hitboxOffsetX,
                 !.velocityX = 0]

(***************************************************************************)
(* Physics.resolveVerticalCollision: ground snap first, then the overlap   *)
(* loop.  In the loop the first resolved hit zeroes velocityY, after which *)
(* neither branch can run again: the first hit in row-major order decides. *)
(***************************************************************************)
\* a faulty variant: the snap needs the feet strictly below the tile's top
GroundSnapBelowTop(e, tm, wasGrounded) ==
    LET b == GetBounds(e)
        left == (b.x + Px(2)) \div TileSize
        right == (b.x + b.width - Px(3)) \div TileSize
        feetY == b.y + b.height
        groundRow == feetY \div TileSize
        tileY == groundRow * TileSize
    IN /\ (wasGrounded \/ e.velocityY >= 0)
       /\ \E col \in left..right :
             /\ IsSolidAt(tm, groundRow, col)
             /\ feetY > tileY
             /\ feetY < tileY + Px(8)

GroundSnapApplies(e, tm, wasGrounded) ==
    LET b == GetBounds(e)
        left == (b.x + Px(2)) \div TileSize
        right == (b.x + b.width - Px(3)) \div TileSize
        feetY == b.y + b.height
        groundRow == feetY \div TileSize
        tileY == groundRow * TileSize
    IN /\ (wasGrounded \/ e.velocityY >= 0)
       /\ \E col \in left..right :
             /\ IsSolidAt(tm, groundRow, col)
             /\ feetY >= tileY
             /\ feetY < tileY + Px(8)

VerticalHits(e, tm) ==
    LET b == GetBounds(e)
        left == (b.x + Px(2)) \div TileSize
        right == (b.x + b.width - Px(3)) \div TileSize
        top == b.y \div TileSize
        bottom == (b.y + b.height - Px(1)) \div TileSize
    IN {rc \in (top..bottom) \X (left..right) :
           IsSolidAt(tm, rc[1], rc[2]) /\ CheckAABB(b, TileRect(rc[1], rc[2]))}

ResolveVerticalCollision(e, tm, wasGrounded) ==
    LET b == GetBounds(e)
        groundRow == (b.y + b.height) \div TileSize
        hits == VerticalHits(e, tm)
    IN IF GroundSnapApplies(e, tm, wasGrounded)
       THEN [e EXCEPT !.y = groundRow * TileSize - e.hitboxHeight - e.hitboxOffsetY,
                      !.velocityY = 0,
                      !.isGrounded = TRUE]
       ELSE IF hits = {} \/ e.velocityY = 0 THEN e
       ELSE LET tileY == FirstHit(hits)[1] * TileSize
            IN IF e.velocityY > 0
               THEN [e EXCEPT !.y = tileY - e.hitboxHeight - e.hitboxOffsetY,
                              !.velocityY = 0,
                              !.isGrounded = TRUE]
               ELSE [e EXCEPT !.y = tileY + TileSize - e.hitboxOffsetY,
                              !.velocityY = 0]

ResolveTilemapCollision(e, tm) ==
    LET wasGrounded == e.isGrounded
        reset == [e EXCEPT !.isGrounded = FALSE, !.isOnPlatform = FALSE]
    IN ResolveVerticalCollision(ResolveHorizontalCollision(reset, tm), tm, wasGrounded)


(***************************************************************************)
(* InputManager.  Key codes are strings; the touch buttons carry action    *)
(* names.  An input state is                                               *)
(*   [keys, keysPressed, keysReleased : sets of codes,                     *)
(*    touchButtons, touchButtonsPressed, touchButtonsReleased : sets of    *)
(*    actions, jumpTouchQueued : BOOLEAN].                                 *)
(***************************************************************************)
Bindings(action) ==
    CASE action = "left" -> {"ArrowLeft", "KeyA"}
      [] action = "right" -> {"ArrowRight", "KeyD"}
      [] action = "up" -> {"ArrowUp", "KeyW"}
      [] action = "down" -> {"ArrowDown", "KeyS"}
      [] action = "jump" -> {"Space", "ArrowUp", "KeyW"}
      [] action = "action" -> {"KeyE", "Enter"}
      [] action = "crouch" -> {"ArrowDown", "KeyS", "ControlLeft"}
      [] action = "pause" -> {"Escape", "KeyP"}
      [] action = "debug" -> {"F3"}
      [] OTHER -> {}

InputInit ==
    [keys |-> {}, keysPressed |-> {}, keysReleased |-> {},
     touchButtons |-> {}, touchButtonsPressed |-> {},
     touchButtonsReleased |-> {}, jumpTouchQueued |-> FALSE]

OnKeyDown(in, code) ==
    [in EXCEPT !.keysPressed = IF code \in in.keys THEN @ ELSE @ \cup {code},
               !.keys = @ \cup {code}]

OnKeyUp(in, code) ==
    [in EXCEPT !.keys = @ \ {code},
               !.keysReleased = @ \cup {code}]

OnTouchStart(in, action) ==
    [in EXCEPT !.touchButtonsPressed = @ \cup {action},
               !.touchButtons = @ \cup {action},
               !.jumpTouchQueued = IF action = "jump" THEN TRUE ELSE @]

OnTouchEnd(in, action) ==
    [in EXCEPT !.touchButtons = @ \ {action},
               !.touchButtonsReleased = @ \cup {action}]

InputUpdate(in) ==
    [in EXCEPT !.keysPressed = {}, !.keysReleased = {},
               !.touchButtonsPressed = {}, !.touchButtonsReleased = {}]

IsDown(in, action) ==
    \/ Bindings(action) \cap in.keys # {}
    \/ action \in in.touchButtons

IsPressed(in, action) ==
    \/ Bindings(action) \cap in.keysPressed # {}
    \/ action \in in.touchButtonsPressed
    \/ (action = "jump" /\ in.jumpTouchQueued)

\* isPressed consumes the queued touch jump when it is what makes it true
ConsumePressed(in, action) ==
    IF /\ Bindings(action) \cap in.keysPressed = {}
       /\ action \notin in.touchButtonsPressed
       /\ action = "jump" /\ in.jumpTouchQueued
    THEN [in EXCEPT !.jumpTouchQueued = FALSE]
    ELSE in

IsReleased(in, action) ==
    \/ Bindings(action) \cap in.keysReleased # {}
    \/ action \in in.touchButtonsReleased

GetHorizontalAxis(in) ==
    (IF IsDown(in, "right") THEN 1 ELSE 0) - (IF IsDown(in, "left") THEN 1 ELSE 0)


(***************************************************************************)
(* Player (the heart-based variant).  Timers that the tick decrements by   *)
(* dt are kept in 1/TimerPerTick of a tick.  In IEEE doubles               *)
(* 0.1 - 6 * dt (dt = (1000/60)/1000) evaluates to 2.08e-17, which is      *)
(* still > 0: the 0.1 s windows are six ticks plus that positive residue.  *)
(* A timer at or below zero is only ever compared with "> 0", so its       *)
(* decrement stops at TimerFloor.                                          *)
(***************************************************************************)
FloatResidue == 1
MoveSpeed == 250
JumpForce == 520
MaxJumps == 1
CoyoteTime == 6 * TimerPerTick + FloatResidue
\* a faulty variant: a jump buffer of 0.05 s
ShortJumpBuffer == 3 * TimerPerTick + FloatResidue
JumpBufferTime == 6 * TimerPerTick + FloatResidue
InvulnerabilityDuration == 3000 * TimePerMs
MaxHealth == 3
MaxEnergy == 100
Acceleration == 1800
Deceleration == 2400
TimerFloor == 0 - TimerPerTick

DecTimer(t) == Max(t - TimerPerTick, TimerFloor)

\* rate * dt in velocity units; in the air the rate is scaled by airControl 0.7
RateStep(rate, grounded) ==
    IF grounded THEN (rate * VelPerPx) \div 60
    ELSE (rate * 7 * VelPerPx) \div 600

NewPlayer(x, y) ==
    [type |-> "player", x |-> x, y |-> y,
     width |-> Px(48), height |-> Px(64),
     hitboxOffsetX |-> Px(12), hitboxOffsetY |-> Px(8),
     hitboxWidth |-> Px(24), hitboxHeight |-> Px(56),
     velocityX |-> 0, velocityY |-> 0,
     isActive |-> TRUE, isGrounded |-> FALSE, isOnPlatform |-> FALSE,
     facingRight |-> TRUE,
     jumpsRemaining |-> 1,
     state |-> "idle", isJumping |-> FALSE, isCrouching |-> FALSE,
     canInteract |-> FALSE, nearbyInteractable |-> 0,
     coyoteTimer |-> 0, jumpBufferTimer |-> 0,
     isInvulnerable |-> FALSE, invulnerabilityTime |-> 0,
     health |-> MaxHealth, energy |-> 100]

\* Player.handleInput, lines 118-151: horizontal movement
\* a faulty variant: deceleration that does not stop at zero
MoveHorizontalOvershooting(p, in) ==
    LET moveX == GetHorizontalAxis(in)
        target == moveX * Vel(MoveSpeed)
        accel == RateStep(Acceleration, p.isGrounded)
        decel == RateStep(Deceleration, p.isGrounded)
        vx == p.velocityX
        newVx ==
            IF Abs(target) * 10 > VelPerPx
            THEN IF vx < target THEN Min(vx + accel, target)
                 ELSE IF vx > target THEN Max(vx - accel, target)
                 ELSE vx
            ELSE IF vx > 0 THEN vx - decel
                 ELSE IF vx < 0 THEN vx + decel
                 ELSE vx
    IN IF ~p.isCrouching \/ ~p.isGrounded
       THEN [p EXCEPT !.velocityX = newVx,
                      !.facingRight = IF moveX > 0 THEN TRUE
                                      ELSE IF moveX < 0 THEN FALSE ELSE @]
       ELSE [p EXCEPT !.velocityX = 0]

MoveHorizontal(p, in) ==
    LET moveX == GetHorizontalAxis(in)
        target == moveX * Vel(MoveSpeed)
        accel == RateStep(Acceleration, p.isGrounded)
        decel == RateStep(Deceleration, p.isGrounded)
        vx == p.velocityX
        newVx ==
            IF Abs(target) * 10 > VelPerPx
            THEN IF vx < target THEN Min(vx + accel, target)
                 ELSE IF vx > target THEN Max(vx - accel, target)
                 ELSE vx
            ELSE IF vx > 0 THEN Max(0, vx - decel)
                 ELSE IF vx < 0 THEN Min(0, vx + decel)
                 ELSE vx
    IN IF ~p.isCrouching \/ ~p.isGrounded
       THEN [p EXCEPT !.velocityX = newVx,
                      !.facingRight = IF moveX > 0 THEN TRUE
                                      ELSE IF moveX < 0 THEN FALSE ELSE @]
       ELSE [p EXCEPT !.velocityX = 0]

\* lines 153-162
Crouch(p, in) ==
    IF IsDown(in, "crouch") /\ p.isGrounded
    THEN [p EXCEPT !.isCrouching = TRUE,
                   !.hitboxHeight = Px(40), !.hitboxOffsetY = Px(24)]
    ELSE [p EXCEPT !.isCrouching = FALSE,
                   !.hitboxHeight = Px(56), !.hitboxOffsetY = Px(8)]

\* a faulty variant: jump() that forgets to clear isGrounded
JumpStayingGrounded(p) ==
    [p EXCEPT !.velocityY = 0 - Vel(JumpForce),
              !.isJumping = TRUE,
              !.jumpsRemaining = @ - 1]

\* Player.jump
Jump(p) ==
    [p EXCEPT !.velocityY = 0 - Vel(JumpForce),
              !.isGrounded = FALSE,
              !.isJumping = TRUE,
              !.jumpsRemaining = @ - 1]

\* lines 164-186: jump buffer, coyote time, jump
\* a faulty variant: the jump count is refilled while coyote time is left
JumpLogicRefillingInAir(p, in) ==
    LET p1 == IF IsPressed(in, "jump")
              THEN [p EXCEPT !.jumpBufferTimer = JumpBufferTime] ELSE p
        p2 == IF p1.isGrounded
              THEN [p1 EXCEPT !.coyoteTimer = CoyoteTime,
                              !.jumpsRemaining = MaxJumps]
              ELSE [p1 EXCEPT !.coyoteTimer = DecTimer(@),
                              !.jumpsRemaining = IF p1.velocityY > 0
                                                 THEN MaxJumps ELSE @]
        p3 == IF p2.jumpBufferTimer > 0
                 /\ (p2.coyoteTimer > 0 \/ p2.jumpsRemaining > 0)
              THEN [Jump(p2) EXCEPT !.jumpBufferTimer = 0, !.coyoteTimer = 0]
              ELSE p2
    IN [p3 EXCEPT !.jumpBufferTimer = DecTimer(@)]

JumpLogic(p, in) ==
    LET p1 == IF IsPressed(in, "jump")
              THEN [p EXCEPT !.jumpBufferTimer = JumpBufferTime] ELSE p
        p2 == IF p1.isGrounded
              THEN [p1 EXCEPT !.coyoteTimer = CoyoteTime,
                              !.jumpsRemaining = MaxJumps]
              ELSE [p1 EXCEPT !.coyoteTimer = DecTimer(@)]
        p3 == IF p2.jumpBufferTimer > 0
                 /\ (p2.coyoteTimer > 0 \/ p2.jumpsRemaining > 0)
              THEN [Jump(p2) EXCEPT !.jumpBufferTimer = 0, !.coyoteTimer = 0]
              ELSE p2
    IN [p3 EXCEPT !.jumpBufferTimer = DecTimer(@)]

\* lines 188-191: variable jump height
HalveVelocity(v) == v \div 2

ReleaseJump(p, in) ==
    IF IsReleased(in, "jump") /\ p.velocityY < 0
    THEN [p EXCEPT !.velocityY = HalveVelocity(@)]
    ELSE p

\* Player.handleInput without the interaction (which changes the sheep)
HandleInput(p, in) ==
    ReleaseJump(JumpLogic(Crouch(MoveHorizontal(p, in), in), in), in)

\* Player.takeDamage; sourceCenterX is "none" when no source is given
\* a faulty variant: takeDamage without the invulnerability check
TakeDamageUnshielded(p, amount, hasSource, sourceCenterX) ==
    LET h == Max(0, p.health - amount)
    IN [p EXCEPT
         !.health = h,
         !.isInvulnerable = TRUE,
         !.invulnerabilityTime = InvulnerabilityDuration,
         !.velocityY = 0 - Vel(250),
         !.velocityX = IF hasSource
                       THEN (IF CenterX(p) > sourceCenterX THEN 1 ELSE -1)
                            * Vel(200)
                       ELSE @,
         !.isActive = IF h <= 0 THEN FALSE ELSE @]

\* a faulty variant: the knockback pulls the player towards the source
TakeDamageTowardsSource(p, amount, hasSource, sourceCenterX) ==
    IF p.isInvulnerable THEN p
    ELSE LET h == Max(0, p.health - amount)
         IN [p EXCEPT
              !.health = h,
              !.isInvulnerable = TRUE,
              !.invulnerabilityTime = InvulnerabilityDuration,
              !.velocityY = 0 - Vel(250),
              !.velocityX = IF hasSource
                            THEN (IF CenterX(p) > sourceCenterX THEN -1 ELSE 1)
                                 * Vel(200)
                            ELSE @,
              !.isActive = IF h <= 0 THEN FALSE ELSE @]

TakeDamage(p, amount, hasSource, sourceCenterX) ==
    IF p.isInvulnerable THEN p
    ELSE LET h == Max(0, p.health - amount)
         IN [p EXCEPT
              !.health = h,
              !.isInvulnerable = TRUE,
              !.invulnerabilityTime = InvulnerabilityDuration,
              !.velocityY = 0 - Vel(250),
              !.velocityX = IF hasSource
                            THEN (IF CenterX(p) > sourceCenterX THEN 1 ELSE -1)
                                 * Vel(200)
                            ELSE @,
              !.isActive = IF h <= 0 THEN FALSE ELSE @]

Heal(p, amount) == [p EXCEPT !.energy = Min(@ + amount, MaxEnergy)]

HealHeart(p, amount) == [p EXCEPT !.health = Min(@ + amount, MaxHealth)]

Die(p) == [p EXCEPT !.isActive = FALSE]

\* Player.fixedUpdate
PlayerFixedUpdate(p) ==
    LET p1 == IF p.velocityY > 0 THEN [p EXCEPT !.isGrounded = FALSE] ELSE p
    IN IF p1.isGrounded /\ p1.isJumping
       THEN [p1 EXCEPT !.isJumping = FALSE] ELSE p1

\* Player.updateState
UpdateState(p) ==
    [p EXCEPT !.state =
        IF p.isCrouching /\ p.isGrounded THEN "crouch"
        ELSE IF ~p.isGrounded
             THEN (IF p.velocityY < 0 THEN "jump" ELSE "fall")
        ELSE IF Abs(p.velocityX) > Vel(10) THEN "run"
        ELSE "idle"]

\* Player.update(dt), dt = deltaTime / 1000 in seconds, here in time units
\* a faulty variant: the invulnerability ends only once the timer is below 0
PlayerUpdateBelowZero(p, dt) ==
    LET p1 == UpdateState(p)
    IN IF p1.isInvulnerable
       THEN LET t == p1.invulnerabilityTime - dt
            IN [p1 EXCEPT !.invulnerabilityTime = t,
                          !.isInvulnerable = ~(t < 0)]
       ELSE p1

PlayerUpdate(p, dt) ==
    LET p1 == UpdateState(p)
    IN IF p1.isInvulnerable
       THEN LET t == p1.invulnerabilityTime - dt
            IN [p1 EXCEPT !.invulnerabilityTime = t,
                          !.isInvulnerable = ~(t <= 0)]
       ELSE p1


(***************************************************************************)
(* Entity.distanceTo compared with a radius.  sqrt(dx^2 + dy^2) < r is     *)
(* dx^2 + dy^2 < r^2; the squares exceed 32 bits in position units, so the *)
(* sign of dx^2 + dy^2 - r^2 is computed on base-Limb digits.              *)
(***************************************************************************)
Limb == 4096

SumSqSign(dx, dy, r) ==
    LET hx == Abs(dx) \div Limb
        lx == Abs(dx) % Limb
        hy == Abs(dy) \div Limb
        ly == Abs(dy) % Limb
        hr == r \div Limb
        lr == r % Limb
        s0 == lx * lx + ly * ly - lr * lr
        s1 == 2 * (hx * lx + hy * ly - hr * lr) + (s0 \div Limb)
        s2 == hx * hx + hy * hy - hr * hr + (s1 \div Limb)
    IN IF s2 < 0 THEN -1
       ELSE IF s2 = 0 /\ s1 % Limb = 0 /\ s0 % Limb = 0 THEN 0
       ELSE 1

DistDx(a, b) == CenterX(b) - CenterX(a)
DistDy(a, b) == CenterY(b) - CenterY(a)

\* a.distanceTo(b) < Px(r), and a.distanceTo(b) > Px(r)
DistanceLess(a, b, r) == SumSqSign(DistDx(a, b), DistDy(a, b), Px(r)) < 0
DistanceGreater(a, b, r) == SumSqSign(DistDx(a, b), DistDy(a, b), Px(r)) > 0

(***************************************************************************)
(* Sheep                                                                   *)
(***************************************************************************)
NewSheep(x, y) ==
    [type |-> "sheep", x |-> x, y |-> y,
     width |-> Px(40), height |-> Px(32),
     hitboxOffsetX |-> Px(4), hitboxOffsetY |-> Px(4),
     hitboxWidth |-> Px(32), hitboxHeight |-> Px(28),
     velocityX |-> 0, velocityY |-> 0,
     isActive |-> TRUE, isGrounded |-> FALSE, isOnPlatform |-> FALSE,
     facingRight |-> TRUE,
     isRescued |-> FALSE, isFollowing |-> FALSE, hasLeader |-> FALSE,
     showInteractionHint |-> FALSE]

\* Sheep.rescue: the leader is always the player
\* a faulty variant: the interaction flips the sheep between rescued and not
RescueToggling(sh) ==
    [sh EXCEPT !.isRescued = ~@, !.isFollowing = ~@, !.hasLeader = ~@]

Rescue(sh) ==
    IF sh.isRescued THEN sh
    ELSE [sh EXCEPT !.isRescued = TRUE, !.isFollowing = TRUE, !.hasLeader = TRUE]

(***************************************************************************)
(* Sheep.followLeader.  dirX = dx / distance is irrational in general: the *)
(* direction is computed on lengths rounded down to 1/8 px and the         *)
(* resulting speed rounded towards zero to a velocity unit.                *)
(***************************************************************************)
RECURSIVE SqrtSearch(_, _, _)
SqrtSearch(n, lo, hi) ==
    IF lo >= hi THEN lo
    ELSE LET mid == (lo + hi + 1) \div 2
         IN IF mid * mid <= n THEN SqrtSearch(n, mid, hi)
            ELSE SqrtSearch(n, lo, mid - 1)

ISqrt(n) == SqrtSearch(n, 0, 32768)

DirSpeed(dx, dy, speed) ==
    LET q == PosPerPx \div 8
        ax == Abs(dx) \div q
        ay == Abs(dy) \div q
        dist == ISqrt(ax * ax + ay * ay)
        mag == (Vel(speed) * ax) \div dist
    IN IF dx < 0 THEN 0 - mag ELSE mag

SheepMoveSpeed == 200

FollowLeader(sh, leader) ==
    LET dx == CenterX(leader) - CenterX(sh)
        dy == (leader.y + leader.height) - (sh.y + sh.height)
    IN IF SumSqSign(dx, dy, Px(120)) > 0
       THEN LET moved == [sh EXCEPT !.velocityX = DirSpeed(dx, dy, SheepMoveSpeed),
                                    !.facingRight = dx > 0]
            IN IF dy < 0 - Px(40) /\ sh.isGrounded
               THEN [moved EXCEPT !.velocityY = 0 - Vel(350), !.isGrounded = FALSE]
               ELSE moved
       ELSE IF SumSqSign(dx, dy, Px(70)) > 0
       THEN [sh EXCEPT !.velocityX = DirSpeed(dx, dy, (SheepMoveSpeed * 4) \div 10),
                       !.facingRight = dx > 0]
       ELSE IF SumSqSign(dx, dy, Px(60)) < 0
       THEN [sh EXCEPT !.velocityX =
                (IF dx > 0 THEN -1 ELSE 1) * Vel((SheepMoveSpeed * 3) \div 10)]
       ELSE [sh EXCEPT !.velocityX = 0]

\* Sheep.fixedUpdate (wander only zeroes velocityX)
SheepFixedUpdate(sh, leader) ==
    IF sh.isRescued /\ sh.hasLeader THEN FollowLeader(sh, leader)
    ELSE [sh EXCEPT !.velocityX = 0]

(***************************************************************************)
(* Collectible                                                             *)
(***************************************************************************)
HealAmount(ctype) ==
    CASE ctype = "berry" -> 10
      [] ctype = "herb" -> 20
      [] ctype = "golden-wool" -> 0
      [] OTHER -> 5

NewCollectible(x, y, ctype) ==
    [type |-> "collectible", x |-> x, y |-> y,
     width |-> Px(24), height |-> Px(24),
     hitboxOffsetX |-> Px(4), hitboxOffsetY |-> Px(4),
     hitboxWidth |-> Px(16), hitboxHeight |-> Px(16),
     velocityX |-> 0, velocityY |-> 0,
     isActive |-> TRUE, isGrounded |-> FALSE, isOnPlatform |-> FALSE,
     facingRight |-> TRUE,
     collectibleType |-> ctype, isCollected |-> FALSE,
     healAmount |-> HealAmount(ctype)]


(***************************************************************************)
(* Enemy (Wolf, Boar).  patrolPauseDuration 2.0 s is 120 ticks plus a      *)
(* positive residue in doubles (the pause ends on the 121st decrement);    *)
(* 1 / attackRate = 1.0 s reaches <= 0 on the 60th decrement.              *)
(***************************************************************************)
PatrolPauseDuration == 120 * TimerPerTick + FloatResidue
AttackPeriod == 60 * TimerPerTick
ChargeCooldown == 120 * TimerPerTick + FloatResidue
BlockedLimit == 6 * TimerPerTick + FloatResidue
ChargeSpeed == 250

NewEnemy(kind, x, y, patrolRange) ==
    LET w == IF kind = "wolf" THEN 56 ELSE 52
        h == IF kind = "wolf" THEN 40 ELSE 36
    IN [type |-> "enemy", kind |-> kind, x |-> x, y |-> y,
        width |-> Px(w), height |-> Px(h),
        hitboxOffsetX |-> 0, hitboxOffsetY |-> 0,
        hitboxWidth |-> Px(w), hitboxHeight |-> Px(h),
        velocityX |-> 0, velocityY |-> 0,
        isActive |-> TRUE, isGrounded |-> FALSE, isOnPlatform |-> FALSE,
        facingRight |-> TRUE,
        moveSpeed |-> IF kind = "wolf" THEN 80 ELSE 50,
        patrolRange |-> patrolRange, startX |-> x, patrolDirection |-> 1,
        detectionRange |-> IF kind = "wolf" THEN 250 ELSE 150,
        isAlerted |-> FALSE,
        damage |-> IF kind = "wolf" THEN 25 ELSE 30,
        attackCooldown |-> 0,
        patrolPauseTime |-> 0, isPaused |-> FALSE,
        lastX |-> x, blockedTime |-> 0,
        state |-> "patrol",
        isCharging |-> FALSE, chargeDirection |-> 0, chargeCooldown |-> 0]

\* Enemy.detectPlayer
DetectPlayer(e, p) ==
    IF DistanceLess(e, p, e.detectionRange) /\ Abs(p.y - e.y) < Px(64)
    THEN [e EXCEPT !.isAlerted = TRUE, !.state = "chase"]
    ELSE e

\* Enemy.patrol
Patrol(e) ==
    IF e.isPaused
    THEN LET t == Max(e.patrolPauseTime - TimerPerTick, TimerFloor)
         IN IF t <= 0
            THEN [e EXCEPT !.velocityX = 0, !.patrolPauseTime = t,
                           !.isPaused = FALSE, !.blockedTime = 0,
                           !.patrolDirection = 0 - @,
                           !.facingRight = (0 - e.patrolDirection) > 0]
            ELSE [e EXCEPT !.velocityX = 0, !.patrolPauseTime = t]
    ELSE LET vx == e.patrolDirection * Vel(e.moveSpeed)
             leftBound == e.startX - Px(e.patrolRange)
             rightBound == e.startX + Px(e.patrolRange)
             isBlocked == Abs(e.x - e.lastX) * 2 < PosPerPx /\ Abs(vx) > Vel(10)
             bt == e.blockedTime + TimerPerTick
             e1 == [e EXCEPT !.velocityX = vx, !.facingRight = e.patrolDirection > 0]
             e2 == IF isBlocked
                   THEN IF bt > BlockedLimit
                        THEN [e1 EXCEPT !.isPaused = TRUE,
                                        !.patrolPauseTime = PatrolPauseDuration,
                                        !.velocityX = 0, !.blockedTime = 0]
                        ELSE [e1 EXCEPT !.blockedTime = bt]
                   ELSE [e1 EXCEPT !.blockedTime = 0]
             e3 == [e2 EXCEPT !.lastX = e.x]
         IN IF e3.patrolDirection > 0 /\ e3.x >= rightBound
            THEN [e3 EXCEPT !.x = rightBound, !.isPaused = TRUE,
                            !.patrolPauseTime = PatrolPauseDuration, !.velocityX = 0]
            ELSE IF e3.patrolDirection < 0 /\ e3.x <= leftBound
            THEN [e3 EXCEPT !.x = leftBound, !.isPaused = TRUE,
                            !.patrolPauseTime = PatrolPauseDuration, !.velocityX = 0]
            ELSE e3

\* Enemy.chase
Chase(e, p) ==
    LET dx == CenterX(p) - CenterX(e)
    IN IF Abs(p.y - e.y) > Px(64)
       THEN IF DistanceGreater(e, p, (e.detectionRange * 3) \div 2)
            THEN [e EXCEPT !.velocityX = 0, !.facingRight = dx > 0,
                           !.isAlerted = FALSE, !.state = "patrol"]
            ELSE [e EXCEPT !.velocityX = 0, !.facingRight = dx > 0]
       ELSE LET e1 == IF DistanceGreater(e, p, 30)
                      THEN [e EXCEPT !.facingRight = dx > 0,
                                     !.velocityX = (IF dx > 0 THEN 1 ELSE -1)
                                                   * Vel((e.moveSpeed * 3) \div 2)]
                      ELSE [e EXCEPT !.facingRight = dx > 0,
                                     !.velocityX = 0, !.state = "attack"]
            IN IF DistanceGreater(e, p, e.detectionRange * 2)
               THEN [e1 EXCEPT !.isAlerted = FALSE, !.state = "patrol"]
               ELSE e1

\* Boar.chase
BoarChase(e, p) ==
    LET e1 == IF DistanceLess(e, p, 120) /\ ~e.isCharging /\ e.chargeCooldown <= 0
              THEN [e EXCEPT !.isCharging = TRUE,
                             !.chargeDirection =
                                 IF CenterX(p) > CenterX(e) THEN 1 ELSE -1]
              ELSE e
        e2 == IF e1.isCharging
              THEN LET c == [e1 EXCEPT !.velocityX = e1.chargeDirection * Vel(ChargeSpeed),
                                       !.facingRight = e1.chargeDirection > 0]
                   IN IF Abs(c.x - c.startX) * 2 > Px(c.patrolRange * 3)
                      THEN [c EXCEPT !.isCharging = FALSE,
                                     !.chargeCooldown = ChargeCooldown]
                      ELSE c
              ELSE Chase(e1, p)
    IN [e2 EXCEPT !.chargeCooldown = Max(@ - TimerPerTick, TimerFloor)]

\* Enemy.attack: the enemy after the attack, and whether it hit the player
AttackHits(e, p) ==
    Max(e.attackCooldown - TimerPerTick, TimerFloor) <= 0 /\ CollidesWith(e, p)

Attack(e, p) ==
    LET e1 == IF AttackHits(e, p)
              THEN [e EXCEPT !.attackCooldown = AttackPeriod]
              ELSE [e EXCEPT !.attackCooldown = Max(@ - TimerPerTick, TimerFloor)]
    IN IF DistanceGreater(e, p, 50) THEN [e1 EXCEPT !.state = "chase"] ELSE e1

\* Enemy.updateWithPlayer: the enemy afterwards
UpdateWithPlayer(e, p) ==
    LET e1 == IF ~e.isAlerted THEN DetectPlayer(e, p) ELSE e
    IN CASE e1.state = "patrol" -> Patrol(e1)
         [] e1.state = "chase" -> IF e1.kind = "boar" THEN BoarChase(e1, p)
                                  ELSE Chase(e1, p)
         [] e1.state = "attack" -> Attack(e1, p)
         [] OTHER -> e1

\* Enemy.updateWithPlayer: the player afterwards (attack calls takeDamage)
PlayerAfterEnemy(e, p) ==
    LET e1 == IF ~e.isAlerted THEN DetectPlayer(e, p) ELSE e
    IN IF e1.state = "attack" /\ AttackHits(e1, p)
       THEN TakeDamage(p, e1.damage, FALSE, 0)
       ELSE p


(***************************************************************************)
(* GameScene.  A world w is the record                                     *)
(*   [player, sheep, enemies, collectibles, input, isPaused, overlays,     *)
(*    gameOvers, collectiblesGathered, goldenWoolFound, log]               *)
(* that one fixed tick transforms; sheep, enemies and collectibles are     *)
(* sequences in the order of the scene's lists (entities = player, sheep,  *)
(* enemies, collectibles).  log is the trace of the calls made by the tick *)
(* so far, one <<call, entity type, index>> per call.                      *)
(***************************************************************************)
MaxGameOvers == 3

Logged(w, call, etype, idx) == [w EXCEPT !.log = Append(@, <<call, etype, idx>>)]

\* GameScene.gameOver: game.pause() and the game-over overlay
GameOver(w) ==
    [w EXCEPT !.isPaused = TRUE, !.gameOvers = Min(@ + 1, MaxGameOvers),
              !.overlays = @ \cup {"game-over"}]

\* lines 163-164: player.handleInput, with the interaction of lines 193-196
PhaseInput(w) ==
    LET in == w.input
        p == HandleInput(w.player, in)
        target == p.nearbyInteractable
        rescues == IsPressed(ConsumePressed(in, "jump"), "action") /\ target # 0
    IN Logged([w EXCEPT !.player = p,
                        !.input = ConsumePressed(in, "jump"),
                        !.sheep = IF rescues
                                  THEN [@ EXCEPT ![target] = Rescue(@)]
                                  ELSE @],
              "handleInput", "player", 1)

\* lines 167-169: enemies.forEach(updateWithPlayer), in list order
RECURSIVE PhaseEnemies(_, _)
PhaseEnemies(w, i) ==
    IF i > Len(w.enemies) THEN w
    ELSE LET e == w.enemies[i]
             w1 == [w EXCEPT !.enemies[i] = UpdateWithPlayer(e, w.player),
                             !.player = PlayerAfterEnemy(e, w.player)]
         IN PhaseEnemies(Logged(w1, "updateWithPlayer", "enemy", i), i + 1)

\* lines 172-181: gravity and entity.fixedUpdate, entity by entity
RECURSIVE GravitySheep(_, _)
GravitySheep(w, i) ==
    IF i > Len(w.sheep) THEN w
    ELSE IF ~w.sheep[i].isRescued THEN GravitySheep(w, i + 1)
    ELSE LET w1 == Logged([w EXCEPT !.sheep[i] = ApplyGravity(@)],
                          "applyGravity", "sheep", i)
             w2 == Logged([w1 EXCEPT !.sheep[i] = SheepFixedUpdate(@, w1.player)],
                          "fixedUpdate", "sheep", i)
         IN GravitySheep(w2, i + 1)

RECURSIVE GravityEnemies(_, _)
GravityEnemies(w, i) ==
    IF i > Len(w.enemies) THEN w
    ELSE GravityEnemies(
             Logged(Logged([w EXCEPT !.enemies[i] = ApplyGravity(@)],
                           "applyGravity", "enemy", i),
                    "fixedUpdate", "enemy", i), i + 1)

PhaseGravity(w) ==
    LET w1 == Logged([w EXCEPT !.player = ApplyGravity(@)],
                     "applyGravity", "player", 1)
        w2 == Logged([w1 EXCEPT !.player = PlayerFixedUpdate(@)],
                     "fixedUpdate", "player", 1)
    IN GravityEnemies(GravitySheep(w2, 1), 1)

\* lines 184-190: updatePosition for everything but unrescued sheep
RECURSIVE LogEach(_, _, _, _, _)
LogEach(w, call, etype, list, i) ==
    IF i > Len(list) THEN w
    ELSE IF etype = "sheep" /\ ~list[i].isRescued
    THEN LogEach(w, call, etype, list, i + 1)
    ELSE LogEach(Logged(w, call, etype, i), call, etype, list, i + 1)

PhasePosition(w) ==
    LET w1 == Logged([w EXCEPT !.player = UpdatePosition(@)],
                     "updatePosition", "player", 1)
        w2 == [w1 EXCEPT
                 !.sheep = [i \in DOMAIN @ |->
                               IF @[i].isRescued THEN UpdatePosition(@[i]) ELSE @[i]],
                 !.enemies = [i \in DOMAIN @ |-> UpdatePosition(@[i])],
                 !.collectibles = [i \in DOMAIN @ |-> UpdatePosition(@[i])]]
    IN LogEach(LogEach(w2, "updatePosition", "sheep", w2.sheep, 1),
               "updatePosition", "enemy", w2.enemies, 1)

\* lines 193-201: resolveTilemapCollision for player, enemies, rescued sheep
PhaseTilemap(w, tm) ==
    LET w1 == Logged([w EXCEPT !.player = ResolveTilemapCollision(@, tm)],
                     "resolveTilemapCollision", "player", 1)
        w2 == [w1 EXCEPT
                 !.sheep = [i \in DOMAIN @ |->
                               IF @[i].isRescued
                               THEN ResolveTilemapCollision(@[i], tm) ELSE @[i]],
                 !.enemies = [i \in DOMAIN @ |-> ResolveTilemapCollision(@[i], tm)]]
    IN LogEach(LogEach(w2, "resolveTilemapCollision", "sheep", w2.sheep, 1),
               "resolveTilemapCollision", "enemy", w2.enemies, 1)


\* GameScene.enforceWorldBoundaries
Margin == 32

ClampToWorld(e, tm) ==
    LET worldWidth == tm.width * TileSize
        e1 == IF e.x < Px(Margin)
              THEN [e EXCEPT !.x = Px(Margin), !.velocityX = 0] ELSE e
    IN IF e1.x + e1.width > worldWidth - Px(Margin)
       THEN [e1 EXCEPT !.x = worldWidth - Px(Margin) - e1.width, !.velocityX = 0]
       ELSE e1

EnforceWorldBoundaries(w, tm, spawn) ==
    LET worldHeight == tm.height * TileSize
        p1 == ClampToWorld(w.player, tm)
        inPit == p1.y > worldHeight /\ ~p1.isInvulnerable
        p2 == IF inPit
              THEN [TakeDamage(p1, 1, FALSE, 0) EXCEPT
                       !.x = spawn.x, !.y = spawn.y,
                       !.velocityX = 0, !.velocityY = 0]
              ELSE p1
        w1 == [w EXCEPT
                 !.player = p2,
                 !.enemies = [i \in DOMAIN @ |-> ClampToWorld(@[i], tm)],
                 !.sheep = [i \in DOMAIN @ |->
                               IF @[i].isRescued THEN ClampToWorld(@[i], tm)
                               ELSE @[i]]]
        w2 == IF inPit /\ p2.health <= 0 THEN GameOver(w1) ELSE w1
    IN Logged(w2, "enforceWorldBoundaries", "scene", 1)

\* a faulty variant: the player pushes every sheep it overlaps
RECURSIVE CollideSheepPushingAll(_, _)
CollideSheepPushingAll(w, i) ==
    IF i > Len(w.sheep) THEN w
    ELSE LET sh == w.sheep[i]
             near == ~sh.isRescued /\ DistanceLess(w.player, sh, 60)
             sh1 == [sh EXCEPT !.showInteractionHint = near]
             pushDir == IF CenterX(sh) - CenterX(w.player) >= 0 THEN 1 ELSE -1
             sh2 == IF CollidesWith(w.player, sh)
                    THEN [sh1 EXCEPT !.x = @ + pushDir * Px(5)] ELSE sh1
             p1 == IF near
                   THEN [w.player EXCEPT !.nearbyInteractable = i,
                                         !.canInteract = TRUE]
                   ELSE w.player
         IN CollideSheepPushingAll([w EXCEPT !.sheep[i] = sh2, !.player = p1],
                                   i + 1)

\* GameScene.checkCollisions, lines 244-262: player vs sheep
RECURSIVE CollideSheep(_, _)
CollideSheep(w, i) ==
    IF i > Len(w.sheep) THEN w
    ELSE LET sh == w.sheep[i]
             near == ~sh.isRescued /\ DistanceLess(w.player, sh, 60)
             sh1 == [sh EXCEPT !.showInteractionHint = near]
             pushDir == IF CenterX(sh) - CenterX(w.player) >= 0 THEN 1 ELSE -1
             sh2 == IF sh.isRescued /\ CollidesWith(w.player, sh)
                    THEN [sh1 EXCEPT !.x = @ + pushDir * Px(5)] ELSE sh1
             p1 == IF near
                   THEN [w.player EXCEPT !.nearbyInteractable = i,
                                         !.canInteract = TRUE]
                   ELSE w.player
         IN CollideSheep([w EXCEPT !.sheep[i] = sh2, !.player = p1], i + 1)

\* a faulty variant: every overlap collects, collected or not
RECURSIVE CollideCollectiblesRecounting(_, _)
CollideCollectiblesRecounting(w, i) ==
    IF i > Len(w.collectibles) THEN w
    ELSE LET c == w.collectibles[i]
         IN IF CollidesWith(w.player, c)
            THEN CollideCollectiblesRecounting(
                   [w EXCEPT
                      !.collectibles[i].isCollected = TRUE,
                      !.player = IF c.healAmount > 0 THEN Heal(@, c.healAmount)
                                 ELSE @,
                      !.collectiblesGathered = @ + 1,
                      !.goldenWoolFound =
                          IF c.collectibleType = "golden-wool" THEN @ + 1 ELSE @],
                   i + 1)
            ELSE CollideCollectiblesRecounting(w, i + 1)

\* lines 265-275: player vs collectibles
RECURSIVE CollideCollectibles(_, _)
CollideCollectibles(w, i) ==
    IF i > Len(w.collectibles) THEN w
    ELSE LET c == w.collectibles[i]
         IN IF ~c.isCollected /\ CollidesWith(w.player, c)
            THEN CollideCollectibles(
                   [w EXCEPT
                      !.collectibles[i].isCollected = TRUE,
                      !.player = IF c.healAmount > 0 THEN Heal(@, c.healAmount)
                                 ELSE @,
                      !.collectiblesGathered = @ + 1,
                      !.goldenWoolFound =
                          IF c.collectibleType = "golden-wool" THEN @ + 1 ELSE @],
                   i + 1)
            ELSE CollideCollectibles(w, i + 1)

\* lines 278-290: player vs enemies
RECURSIVE CollideEnemies(_, _)
CollideEnemies(w, i) ==
    IF i > Len(w.enemies) THEN w
    ELSE LET e == w.enemies[i]
         IN IF CollidesWith(w.player, e) /\ ~w.player.isInvulnerable
            THEN LET p1 == TakeDamage(w.player, 1, TRUE, CenterX(e))
                     w1 == [w EXCEPT !.player = p1]
                 IN CollideEnemies(IF p1.health <= 0 THEN GameOver(w1) ELSE w1,
                                   i + 1)
            ELSE CollideEnemies(w, i + 1)

\* GameScene.checkWaterHazard
OverWater(e, tm) ==
    LET tileX == CenterX(e) \div TileSize
        tileY == (e.y + e.height) \div TileSize
    IN InGrid(tm, tileY, tileX) /\ TileAt(tm, tileY, tileX) = WaterTile

CheckWaterHazard(w, tm) ==
    LET p == w.player
        hurt == OverWater(p, tm) /\ ~p.isInvulnerable
        p1 == IF hurt
              THEN [TakeDamage(p, 1, FALSE, 0) EXCEPT
                       !.velocityY = 0 - Vel(400),
                       !.velocityX = IF p.facingRight THEN 0 - Vel(200)
                                     ELSE Vel(200)]
              ELSE p
        w1 == [w EXCEPT
                 !.player = p1,
                 !.sheep = [i \in DOMAIN @ |->
                     IF @[i].isRescued /\ OverWater(@[i], tm)
                     THEN [@[i] EXCEPT
                             !.velocityY = 0 - Vel(350),
                             !.velocityX = IF @[i].facingRight THEN 0 - Vel(150)
                                           ELSE Vel(150)]
                     ELSE @[i]]]
    IN IF hurt /\ p1.health <= 0 THEN GameOver(w1) ELSE w1

CheckCollisions(w, tm) ==
    Logged(CheckWaterHazard(
               CollideEnemies(CollideCollectibles(CollideSheep(w, 1), 1), 1), tm),
           "checkCollisions", "scene", 1)

\* a faulty variant: tilemap collisions are resolved before the positions
\* are integrated
FixedUpdateResolvingFirst(w, tm, spawn) ==
    CheckCollisions(
        EnforceWorldBoundaries(
            PhasePosition(
                PhaseTilemap(
                    PhaseGravity(
                        PhaseEnemies(PhaseInput([w EXCEPT !.log = <<>>]), 1)),
                    tm)),
            tm, spawn),
        tm)

\* GameScene.fixedUpdate
FixedUpdate(w, tm, spawn) ==
    CheckCollisions(
        EnforceWorldBoundaries(
            PhaseTilemap(
                PhasePosition(
                    PhaseGravity(
                        PhaseEnemies(PhaseInput([w EXCEPT !.log = <<>>]), 1))),
                tm),
            tm, spawn),
        tm)


\* GameScene.checkInteractables
RECURSIVE LastNear(_, _, _)
LastNear(p, sheepList, i) ==
    IF i = 0 THEN 0
    ELSE IF ~sheepList[i].isRescued /\ DistanceLess(p, sheepList[i], 60) THEN i
    ELSE LastNear(p, sheepList, i - 1)

RescuedCount(sheepList) ==
    Cardinality({i \in DOMAIN sheepList : sheepList[i].isRescued})

(***************************************************************************)
(* GameState (the persistence layer): data holds the unlocked levels, in   *)
(* the order in which they were unlocked, the record of each of the five   *)
(* levels and the totals over the levels.                                  *)
(***************************************************************************)
CurrentLevel == 1
LastLevel == 5

DefaultState ==
    [unlockedLevels |-> <<1>>,
     levelData |-> [n \in 1..LastLevel |->
                      [completed |-> FALSE, sheepRescued |-> 0,
                       totalSheep |-> <<3, 4, 4, 5, 6>>[n],
                       collectibles |-> 0, goldenWool |-> 0]],
     totalSheepRescued |-> 0, totalCollectibles |-> 0, totalGoldenWool |-> 0]

\* Array.prototype.includes
Includes(list, x) == \E i \in DOMAIN list : list[i] = x

RECURSIVE SumUpTo(_, _)
SumUpTo(f, n) == IF n = 0 THEN 0 ELSE f[n] + SumUpTo(f, n - 1)

\* GameState.recalculateTotals
RecalculateTotals(d) ==
    [d EXCEPT
       !.totalSheepRescued =
           SumUpTo([n \in DOMAIN d.levelData |-> d.levelData[n].sheepRescued],
                   LastLevel),
       !.totalCollectibles =
           SumUpTo([n \in DOMAIN d.levelData |-> d.levelData[n].collectibles],
                   LastLevel),
       !.totalGoldenWool =
           SumUpTo([n \in DOMAIN d.levelData |-> d.levelData[n].goldenWool],
                   LastLevel)]

\* GameState.save: the data as JSON under the storage key (numbers, flags
\* and arrays of numbers come back from JSON as they went in)
Save(d) == [hasItem |-> TRUE, item |-> d]

\* GameState.load: mergeDeep(defaultState, parsed) copies the record of
\* each level and the totals from the saved item; it builds the merge of
\* unlockedLevels with an object spread, so that the result is a plain
\* object and not an array, and load replaces it by [1]
Load(ls) ==
    IF ls.hasItem THEN [ls.item EXCEPT !.unlockedLevels = <<1>>]
    ELSE DefaultState

\* GameState.completeLevel, up to its call of save()
CompleteLevel(d, levelNum, rescued, gathered, golden) ==
    IF levelNum \notin DOMAIN d.levelData THEN d
    ELSE LET nextLevel == levelNum + 1
         IN RecalculateTotals(
              [d EXCEPT
                 !.levelData[levelNum].completed = TRUE,
                 !.levelData[levelNum].sheepRescued = Max(@, rescued),
                 !.levelData[levelNum].collectibles = Max(@, gathered),
                 !.levelData[levelNum].goldenWool = Max(@, golden),
                 !.unlockedLevels =
                     IF nextLevel <= LastLevel /\ ~Includes(@, nextLevel)
                     THEN Append(@, nextLevel) ELSE @])

\* GameScene.levelComplete: game.pause(), state.completeLevel
MaxLevelCompletes == 2

\* GameScene.update with a levelComplete() that leaves the game running
SceneUpdateNotPausing(u, dt, tm, totalSheep) ==
    LET p1 == PlayerUpdate(u.player, dt)
        p2 == [p1 EXCEPT !.nearbyInteractable = LastNear(p1, u.sheep, Len(u.sheep))]
        sh == [i \in DOMAIN u.sheep |->
                 [u.sheep[i] EXCEPT !.showInteractionHint =
                     ~u.sheep[i].isRescued /\ DistanceLess(p1, u.sheep[i], 60)]]
        rescued == Max(u.sheepRescued, RescuedCount(u.sheep))
        u1 == [u EXCEPT !.player = p2, !.sheep = sh, !.sheepRescued = rescued,
                        !.isPaused = @ \/ IsPressed(u.input, "pause"),
                        !.overlays = IF IsPressed(u.input, "pause")
                                     THEN @ \cup {"pause-menu"} ELSE @]
    IN IF ~p2.isActive THEN GameOver(u1)
       ELSE IF p2.y > tm.height * TileSize + Px(200)
       THEN GameOver([u1 EXCEPT !.player = Die(p2)])
       ELSE IF rescued >= totalSheep
       THEN [u1 EXCEPT !.levelCompletes = Min(@ + 1, MaxLevelCompletes),
                       !.overlays = @ \cup {"level-complete"}]
       ELSE u1

(***************************************************************************)
(* GameScene.update, after Game.update has called input.update().  A scene *)
(* state u is a world plus [sheepRescued, levelCompletes].                 *)
(***************************************************************************)
SceneUpdate(u, dt, tm, totalSheep) ==
    LET p1 == PlayerUpdate(u.player, dt)
        p2 == [p1 EXCEPT !.nearbyInteractable = LastNear(p1, u.sheep, Len(u.sheep))]
        sh == [i \in DOMAIN u.sheep |->
                 [u.sheep[i] EXCEPT !.showInteractionHint =
                     ~u.sheep[i].isRescued /\ DistanceLess(p1, u.sheep[i], 60)]]
        rescued == Max(u.sheepRescued, RescuedCount(u.sheep))
        u1 == [u EXCEPT !.player = p2, !.sheep = sh, !.sheepRescued = rescued,
                        !.isPaused = @ \/ IsPressed(u.input, "pause"),
                        !.overlays = IF IsPressed(u.input, "pause")
                                     THEN @ \cup {"pause-menu"} ELSE @]
    IN IF ~p2.isActive THEN GameOver(u1)
       ELSE IF p2.y > tm.height * TileSize + Px(200)
       THEN GameOver([u1 EXCEPT !.player = Die(p2)])
       ELSE IF rescued >= totalSheep
       THEN [u1 EXCEPT !.isPaused = TRUE,
                       !.levelCompletes = Min(@ + 1, MaxLevelCompletes),
                       !.overlays = @ \cup {"level-complete"}]
       ELSE u1

(***************************************************************************)
(* Levels: a tilemap is [width, height, data] with data row-major, built   *)
(* as LevelLoader builds its ground: column c is solid from row ground[c]  *)
(* down (grass on top, dirt below); a ground row equal to the height is a  *)
(* pit.  The player spawns at x = 64, standing on the ground row.          *)
(***************************************************************************)
MakeTilemap(width, height, ground) ==
    [width |-> width, height |-> height,
     data |-> [k \in 1..(width * height) |->
                 LET row == (k - 1) \div width
                     col == (k - 1) % width
                 IN IF row = ground[col + 1] THEN 1
                    ELSE IF row > ground[col + 1] THEN 2
                    ELSE 0]]

MakeLevel(width, height, ground, spawnRow, sheepAt, enemiesAt, collectiblesAt) ==
    [tilemap |-> MakeTilemap(width, height, ground),
     playerSpawn |-> [x |-> Px(64), y |-> spawnRow * TileSize - Px(64)],
     sheep |-> sheepAt, enemies |-> enemiesAt, collectibles |-> collectiblesAt]


(***************************************************************************)
(* State.  Game: isRunning, isPaused, accumulator, deltaTime; sinceLast is *)
(* now - lastTime; rafPending counts the requestAnimationFrame callbacks   *)
(* registered for the next frame and rafDue those of the current frame     *)
(* not yet run; pc is the position inside gameLoop ("idle" outside it,     *)
(* "ticks" in the while loop).  level is the loaded level data.  obs       *)
(* records observations of the run: ticks (fixed ticks so far),            *)
(* ticksThisFrame, frameStartAcc and frameDelta (accumulator at entry and  *)
(* delta of the current gameLoop call), pressSeen (ticks in which          *)
(* isPressed('jump') was true since the last physical press of a jump      *)
(* key), halvings (halvings of velocityY since the last release of a jump  *)
(* key), events (input and UI events so far), sincePress (fixed ticks      *)
(* since the last one that observed isPressed('jump')), buffered (that     *)
(* press came while the player was in the air with neither a jump left nor *)
(* coyote time, and no jump has fired since), firedAfter (if the last jump *)
(* fired in a tick without a press: how many ticks after the press),       *)
(* idleTicks (the latest consecutive ticks that the player began grounded  *)
(* with a horizontal axis of 0), idleFrom (|velocityX| when they began),   *)
(* stillTicks (the latest consecutive ticks that the first enemy ended on  *)
(* patrol with velocityX = 0), lastStill (stillTicks when it last moved    *)
(* again), turns (how often it has moved again after standing still),      *)
(* sinceMark (real time since the later of the last gameLoop call and the  *)
(* last resume), frameGap (sinceMark at the entry of the current unpaused  *)
(* frame), longGaps (paused gameLoop calls since the end of the last       *)
(* unpaused frame that came more than maxDeltaTime after the call before), *)
(* shielded (the time that Game.update has been given since the tick in    *)
(* which the player last became invulnerable, up to the update that ended  *)
(* the invulnerability), chargeTicks (the latest consecutive ticks that the *)
(* first enemy ended with isCharging set).  scenes is the SceneManager:     *)
(* hasScene (currentScene is set), isTransitioning, hasPlayer (the player  *)
(* of the scene is not null) and step, the position inside an unfinished   *)
(* switchTo ("none" outside it).  data is the data of GameState, and         *)
(* localStorage the item that save() has written (hasItem: there is one).  *)
(***************************************************************************)
VARIABLES isRunning, isPaused, accumulator, deltaTime, sinceLast,
          rafPending, rafDue, pc, input,
          player, sheep, enemies, collectibles,
          sheepRescued, collectiblesGathered, goldenWoolFound,
          gameOvers, levelCompletes, overlays, level, log, obs, scenes, data,
          localStorage

gameVars == <<isRunning, isPaused, accumulator, deltaTime, sinceLast,
              rafPending, rafDue, pc>>
sceneVars == <<player, sheep, enemies, collectibles, sheepRescued,
               collectiblesGathered, goldenWoolFound, gameOvers,
               levelCompletes, overlays, log>>
vars == <<gameVars, input, sceneVars, level, obs, scenes, data, localStorage>>

World ==
    [player |-> player, sheep |-> sheep, enemies |-> enemies,
     collectibles |-> collectibles, input |-> input, isPaused |-> isPaused,
     gameOvers |-> gameOvers, collectiblesGathered |-> collectiblesGathered,
     goldenWoolFound |-> goldenWoolFound, log |-> log,
     sheepRescued |-> sheepRescued, levelCompletes |-> levelCompletes,
     overlays |-> overlays]

\* the variables take the fields of world w
Becomes(w) ==
    /\ player' = w.player
    /\ sheep' = w.sheep
    /\ enemies' = w.enemies
    /\ collectibles' = w.collectibles
    /\ input' = w.input
    /\ isPaused' = w.isPaused
    /\ gameOvers' = w.gameOvers
    /\ collectiblesGathered' = w.collectiblesGathered
    /\ goldenWoolFound' = w.goldenWoolFound
    /\ log' = w.log
    /\ sheepRescued' = w.sheepRescued
    /\ levelCompletes' = w.levelCompletes
    /\ overlays' = w.overlays

MaxSincePress == 9
MaxIdleTicks == 9

MaxStillTicks == 125
MaxLongGaps == 2
MaxTurns == 3
MaxChargeTicks == 26

ObsInit ==
    [ticks |-> 0, ticksThisFrame |-> 0, frameStartAcc |-> 0, frameDelta |-> 0,
     pressSeen |-> 0, halvings |-> 0, events |-> 0,
     sincePress |-> MaxSincePress, buffered |-> FALSE, firedAfter |-> 0,
     idleTicks |-> 0, idleFrom |-> 0,
     stillTicks |-> 0, lastStill |-> 0, turns |-> 0,
     sinceMark |-> 0, frameGap |-> 0, longGaps |-> 0, shielded |-> 0,
     chargeTicks |-> 0]

\* SceneManager after the switchTo of UIManager.startLevel has finished
ScenesInit ==
    [hasScene |-> TRUE, isTransitioning |-> FALSE, hasPlayer |-> TRUE,
     step |-> "none"]

\* a faulty variant: the scene is updated during a transition as well
SceneRunsWhileSwitching(sm) == sm.hasScene /\ sm.hasPlayer

\* SceneManager.fixedUpdate and update pass the call on to the scene, and
\* GameScene.fixedUpdate and update go past their first line
SceneRuns(sm) == sm.hasScene /\ ~sm.isTransitioning /\ sm.hasPlayer

\* Game constructor, GameScene.loadLevel and Game.start on level lv, with
\* the player as p (NewPlayer at the spawn for a fresh level)
InitWith(lv, p) ==
    /\ isRunning = TRUE
    /\ isPaused = FALSE
    /\ accumulator = 0
    /\ deltaTime = 0
    /\ sinceLast = 0
    /\ rafPending = 1
    /\ rafDue = 0
    /\ pc = "idle"
    /\ input = InputInit
    /\ player = p
    /\ sheep = lv.sheep
    /\ enemies = lv.enemies
    /\ collectibles = lv.collectibles
    /\ sheepRescued = 0
    /\ collectiblesGathered = 0
    /\ goldenWoolFound = 0
    /\ gameOvers = 0
    /\ levelCompletes = 0
    /\ overlays = {}
    /\ level = lv
    /\ log = <<>>
    /\ obs = ObsInit
    /\ scenes = ScenesInit
    /\ data = DefaultState
    /\ localStorage = [hasItem |-> FALSE, item |-> DefaultState]

(***************************************************************************)
(* Time passes: d time units go by and the browser reaches the next frame, *)
(* making the registered callbacks due.                                    *)
(***************************************************************************)
MaxElapsed == 400
MaxPressSeen == 4
MaxHalvings == 4

Passing(d) == obs' = [obs EXCEPT !.sinceMark = @ + d]

Elapse(d) ==
    /\ pc = "idle"
    /\ rafDue = 0
    /\ sinceLast + d <= MaxElapsed
    /\ sinceLast' = sinceLast + d
    /\ rafDue' = rafPending
    /\ rafPending' = 0
    /\ Passing(d)
    /\ UNCHANGED <<isRunning, isPaused, accumulator, deltaTime, pc, input,
                   sceneVars, level, data, localStorage, scenes>>

\* d passes between two frames without the next frame being due yet
Wait(d) ==
    /\ pc = "idle"
    /\ rafDue = 0
    /\ sinceLast + d <= MaxElapsed
    /\ sinceLast' = sinceLast + d
    /\ Passing(d)
    /\ UNCHANGED <<isRunning, isPaused, accumulator, deltaTime, rafPending,
                   rafDue, pc, input, sceneVars, level, data, localStorage, scenes>>

\* Game.gameLoop up to the while loop (lines 209-219)
FrameBegin ==
    /\ pc = "idle"
    /\ rafDue > 0
    /\ rafDue' = rafDue - 1
    /\ IF ~isRunning
       THEN UNCHANGED <<isRunning, isPaused, accumulator, deltaTime, sinceLast,
                        rafPending, pc, obs>>
       ELSE LET delta == Min(sinceLast, MaxDeltaTime)
            IN /\ deltaTime' = delta
               /\ sinceLast' = 0
               /\ UNCHANGED <<isRunning, isPaused>>
               /\ IF isPaused
                  THEN /\ rafPending' = rafPending + 1
                       /\ obs' = [obs EXCEPT
                                    !.sinceMark = 0,
                                    !.longGaps = IF sinceLast > MaxDeltaTime
                                                 THEN Min(@ + 1, MaxLongGaps)
                                                 ELSE @]
                       /\ UNCHANGED <<accumulator, pc>>
                  ELSE /\ accumulator' = accumulator + delta
                       /\ pc' = "ticks"
                       /\ obs' = [obs EXCEPT !.ticksThisFrame = 0,
                                             !.frameStartAcc = accumulator,
                                             !.frameDelta = delta,
                                             !.frameGap = obs.sinceMark,
                                             !.sinceMark = 0]
                       /\ UNCHANGED rafPending
    /\ UNCHANGED <<input, sceneVars, level, data, localStorage, scenes>>

\* one iteration of the while loop (lines 221-224): Game.fixedUpdate
FrameTick ==
    /\ pc = "ticks"
    /\ accumulator >= FixedTimeStep
    /\ IF SceneRuns(scenes)
       THEN LET w == FixedUpdate(World, level.tilemap, level.playerSpawn)
                   sawPress == IsPressed(input, "jump")
                   halved == IsReleased(input, "jump")
                             /\ JumpLogic(Crouch(MoveHorizontal(player, input), input),
                                          input).velocityY < 0
                   noJumpLeft == /\ ~player.isGrounded
                                 /\ player.jumpsRemaining = 0
                                 /\ player.coyoteTimer <= TimerPerTick
                   fired == /\ player'.jumpsRemaining = 0
                            /\ (player.isGrounded \/ player.jumpsRemaining > 0)
                   idle == player.isGrounded /\ GetHorizontalAxis(input) = 0
                   still == /\ Len(enemies') >= 1
                            /\ enemies'[1].state = "patrol"
                            /\ enemies'[1].velocityX = 0
                   moved == ~still /\ obs.stillTicks > 0
               IN /\ Becomes(w)
                  /\ obs' = [obs EXCEPT
                               !.ticks = @ + 1,
                               !.ticksThisFrame = @ + 1,
                               !.pressSeen = IF sawPress THEN Min(@ + 1, MaxPressSeen)
                                             ELSE @,
                               !.halvings = IF halved THEN Min(@ + 1, MaxHalvings) ELSE @,
                               !.sincePress = IF sawPress THEN 0
                                              ELSE Min(@ + 1, MaxSincePress),
                               !.buffered = IF sawPress THEN noJumpLeft
                                            ELSE IF fired THEN FALSE ELSE @,
                               !.firedAfter = IF sawPress THEN 0
                                              ELSE IF fired THEN obs.sincePress + 1
                                              ELSE @,
                               !.idleTicks = IF idle THEN Min(@ + 1, MaxIdleTicks) ELSE 0,
                               !.idleFrom = IF ~idle THEN 0
                                            ELSE IF obs.idleTicks = 0
                                            THEN Abs(player.velocityX) ELSE @,
                               !.stillTicks = IF still THEN Min(@ + 1, MaxStillTicks)
                                              ELSE 0,
                               !.lastStill = IF moved THEN obs.stillTicks ELSE @,
                               !.turns = IF moved THEN Min(@ + 1, MaxTurns) ELSE @,
                               !.shielded = IF player'.isInvulnerable
                                               /\ ~player.isInvulnerable
                                            THEN 0 ELSE @,
                               !.chargeTicks = IF Len(enemies') >= 1
                                                  /\ enemies'[1].isCharging
                                               THEN Min(@ + 1, MaxChargeTicks) ELSE 0]
       ELSE /\ UNCHANGED <<input, isPaused, sceneVars>>
            /\ obs' = [obs EXCEPT !.ticks = @ + 1,
                                  !.ticksThisFrame = @ + 1]
    /\ accumulator' = accumulator - FixedTimeStep
    /\ UNCHANGED <<isRunning, deltaTime, sinceLast, rafPending, rafDue, pc,
                   level, data, localStorage, scenes>>

\* the rest of gameLoop (lines 226-235): Game.update, render, next frame
FrameUpdate ==
    /\ pc = "ticks"
    /\ accumulator < FixedTimeStep
    /\ IF SceneRuns(scenes)
       THEN Becomes(SceneUpdate([World EXCEPT !.input = InputUpdate(input)],
                                deltaTime, level.tilemap, Len(level.sheep)))
       ELSE /\ input' = InputUpdate(input)
            /\ UNCHANGED <<isPaused, sceneVars>>
    /\ pc' = "idle"
    /\ rafPending' = rafPending + 1
    /\ obs' = [obs EXCEPT !.longGaps = 0,
                          !.shielded = IF player.isInvulnerable
                                       THEN @ + deltaTime ELSE @]
    /\ data' = IF levelCompletes' > levelCompletes
               THEN CompleteLevel(data, CurrentLevel, sheepRescued',
                                  collectiblesGathered', goldenWoolFound')
               ELSE data
    /\ localStorage' = IF levelCompletes' > levelCompletes
                       THEN Save(data') ELSE localStorage
    /\ UNCHANGED <<isRunning, accumulator, deltaTime, sinceLast, rafDue,
                   level, scenes>>


(***************************************************************************)
(* Events between frames: the keyboard and touch handlers of InputManager  *)
(* and the buttons of UIManager.  An event is handled before the time up   *)
(* to the next frame elapses (an event and the passing of time commute,    *)
(* but for resume, whose lastTime = now is the start of that time).        *)
(***************************************************************************)
Event == obs' = [obs EXCEPT !.events = @ + 1]

\* InputManager.onKeyDown for a key that is not held (a physical press)
KeyDown(code) ==
    /\ pc = "idle" /\ rafDue = 0
    /\ code \notin input.keys
    /\ input' = OnKeyDown(input, code)
    /\ obs' = [obs EXCEPT !.events = @ + 1,
                          !.pressSeen = IF code \in Bindings("jump") THEN 0 ELSE @]
    /\ UNCHANGED <<gameVars, sceneVars, level, data, localStorage, scenes>>

\* InputManager.onKeyUp
KeyUp(code) ==
    /\ pc = "idle" /\ rafDue = 0
    /\ code \in input.keys
    /\ input' = OnKeyUp(input, code)
    /\ obs' = [obs EXCEPT !.events = @ + 1,
                          !.halvings = IF code \in Bindings("jump") THEN 0 ELSE @]
    /\ UNCHANGED <<gameVars, sceneVars, level, data, localStorage, scenes>>

\* touchstart on a mobile button
TouchStart(action) ==
    /\ pc = "idle" /\ rafDue = 0
    /\ action \notin input.touchButtons
    /\ input' = OnTouchStart(input, action)
    /\ obs' = [obs EXCEPT !.events = @ + 1,
                          !.pressSeen = IF action = "jump" THEN 0 ELSE @]
    /\ UNCHANGED <<gameVars, sceneVars, level, data, localStorage, scenes>>

\* touchend on a mobile button
TouchEnd(action) ==
    /\ pc = "idle" /\ rafDue = 0
    /\ action \in input.touchButtons
    /\ input' = OnTouchEnd(input, action)
    /\ obs' = [obs EXCEPT !.events = @ + 1,
                          !.halvings = IF action = "jump" THEN 0 ELSE @]
    /\ UNCHANGED <<gameVars, sceneVars, level, data, localStorage, scenes>>

\* UIManager, btn-pause: game.pause() and the pause menu
PauseButton ==
    /\ pc = "idle" /\ rafDue = 0
    /\ overlays = {}
    /\ isPaused' = TRUE
    /\ overlays' = {"pause-menu"}
    /\ Event
    /\ UNCHANGED <<isRunning, accumulator, deltaTime, sinceLast, rafPending,
                   rafDue, pc, input, player, sheep, enemies, collectibles,
                   sheepRescued, collectiblesGathered, goldenWoolFound,
                   gameOvers, levelCompletes, log, level, data, localStorage, scenes>>

\* btn-resume with a resume() that leaves lastTime alone
ResumeKeepingLastTime ==
    /\ pc = "idle" /\ rafDue = 0
    /\ "pause-menu" \in overlays
    /\ isPaused' = FALSE
    /\ overlays' = overlays \ {"pause-menu"}
    /\ obs' = [obs EXCEPT !.events = @ + 1, !.sinceMark = 0]
    /\ UNCHANGED <<isRunning, accumulator, deltaTime, sinceLast, rafPending,
                   rafDue, pc, input, player, sheep, enemies, collectibles,
                   sheepRescued, collectiblesGathered, goldenWoolFound,
                   gameOvers, levelCompletes, log, level, data, localStorage, scenes>>

\* UIManager, btn-resume: game.resume()
ResumeButton ==
    /\ pc = "idle" /\ rafDue = 0
    /\ "pause-menu" \in overlays
    /\ isPaused' = FALSE
    /\ sinceLast' = 0
    /\ overlays' = overlays \ {"pause-menu"}
    /\ obs' = [obs EXCEPT !.events = @ + 1, !.sinceMark = 0]
    /\ UNCHANGED <<isRunning, accumulator, deltaTime, rafPending,
                   rafDue, pc, input, player, sheep, enemies, collectibles,
                   sheepRescued, collectiblesGathered, goldenWoolFound,
                   gameOvers, levelCompletes, log, level, data, localStorage, scenes>>


(***************************************************************************)
(* Specification Spec: a flat level (ground on row 4 of a 10 x 6 map, one  *)
(* sheep waiting far from the spawn), the keyboard, the pause and resume   *)
(* buttons, and frames of 144 Hz, 60 Hz, 30 Hz or longer than the cap.     *)
(***************************************************************************)
LevelFlat ==
    MakeLevel(10, 6, [c \in 1..10 |-> 4], 4,
              <<NewSheep(Px(240), Px(96))>>, <<>>, <<>>)

Deltas == {25, 50, 325}
Keys == {"Space", "ArrowRight"}
MaxTicks == 6
MaxEvents == 3

Init == InitWith(LevelFlat, NewPlayer(LevelFlat.playerSpawn.x, LevelFlat.playerSpawn.y))

Next ==
    \/ obs.ticks < MaxTicks /\ \E d \in Deltas : Elapse(d)
    \/ FrameBegin
    \/ FrameTick
    \/ FrameUpdate
    \/ obs.events < MaxEvents /\ \E code \in Keys : KeyDown(code)
    \/ obs.events < MaxEvents /\ \E code \in Keys : KeyUp(code)
    \/ obs.events < MaxEvents /\ PauseButton
    \/ obs.events < MaxEvents /\ ResumeButton

Spec == Init /\ [][Next]_vars

TypeOK ==
    /\ isRunning \in BOOLEAN /\ isPaused \in BOOLEAN
    /\ accumulator \in Nat /\ deltaTime \in 0..MaxDeltaTime
    /\ pc \in {"idle", "ticks"}
    /\ player.velocityY <= Vel(MaxFallSpeed)


(***************************************************************************)
(* C1: in every unpaused frame the elapsed time, capped at maxDeltaTime,   *)
(* is added to the accumulator; then exactly                               *)
(* floor(accumulator / fixedTimeStep) fixed ticks run, each taking one     *)
(* fixedTimeStep from the accumulator; the frame ends with                 *)
(* 0 <= accumulator < fixedTimeStep, after at most 6 ticks.                *)
(***************************************************************************)
C1_FixedTimestepLoop ==
    /\ deltaTime <= MaxDeltaTime
    /\ pc = "ticks" =>
         /\ obs.frameDelta = deltaTime
         /\ accumulator + obs.ticksThisFrame * FixedTimeStep
              = obs.frameStartAcc + obs.frameDelta
    /\ pc = "idle" =>
         /\ 0 <= accumulator /\ accumulator < FixedTimeStep
         /\ obs.ticksThisFrame
              = (obs.frameStartAcc + obs.frameDelta) \div FixedTimeStep
         /\ accumulator
              = (obs.frameStartAcc + obs.frameDelta) % FixedTimeStep
         /\ obs.ticksThisFrame <= 6

\* a frame longer than the cap has run its 6 ticks and left a remainder
C1_Witness ==
    /\ pc = "idle"
    /\ deltaTime = MaxDeltaTime
    /\ obs.ticksThisFrame = 6
    /\ accumulator > 0


(***************************************************************************)
(* Specification SpecHazard: a level whose ground ends in a pit right of   *)
(* the spawn (ground on row 4 of columns 0-2 only), a sheep waiting left   *)
(* of the spawn, and a player who enters with 1 to 3 hearts left and may   *)
(* hold the right key; frames of 60 Hz, 30 Hz or longer than the cap.      *)
(***************************************************************************)
LevelPit ==
    MakeLevel(10, 6, [c \in 1..10 |-> IF c <= 3 THEN 4 ELSE 6], 4,
              <<NewSheep(Px(32), Px(96))>>, <<>>, <<>>)

HazardDeltas == {50, 100, 325}
MaxHazardTicks == 60

InitHazard ==
    \E h \in 1..MaxHealth :
        InitWith(LevelPit,
                 [NewPlayer(LevelPit.playerSpawn.x, LevelPit.playerSpawn.y)
                    EXCEPT !.health = h])

NextHazard ==
    \/ obs.ticks < MaxHazardTicks /\ \E d \in HazardDeltas : Elapse(d)
    \/ FrameBegin
    \/ FrameTick
    \/ FrameUpdate
    \/ obs.events < 1 /\ KeyDown("ArrowRight")

SpecHazard == InitHazard /\ [][NextHazard]_vars

(***************************************************************************)
(* C2: from the call of Game.pause() (also from inside a fixed tick, by    *)
(* GameScene.gameOver, or from the variable update) until resume() or      *)
(* start(), no fixed tick runs and the accumulator does not change: a step *)
(* that starts and ends paused leaves the tick count and the accumulator   *)
(* as they were.                                                           *)
(***************************************************************************)
C2_PauseFreezesTicks ==
    [][(isPaused /\ isPaused')
         => (obs'.ticks = obs.ticks /\ accumulator' = accumulator)]_vars


(***************************************************************************)
(* C3: for every physical press of an action key (here a jump key),        *)
(* isPressed(action) is observed true in exactly one fixed tick: never in  *)
(* two or more ticks, and the press flag is never cleared by               *)
(* InputManager.update before a tick has observed it.                      *)
(***************************************************************************)
C3_PressedInExactlyOneTick ==
    [][/\ obs'.pressSeen <= 1
       /\ (Bindings("jump") \cap input.keysPressed # {}
           /\ Bindings("jump") \cap input'.keysPressed = {})
            => obs.pressSeen = 1]_vars

(***************************************************************************)
(* Specification SpecGrouping: only the grouping of ticks into frames      *)
(* varies.  The level is flat with a water tile at ground level under the  *)
(* centre of the player, who stands on the ground tile next to it and is   *)
(* still invulnerable for 25 ms from an earlier hit; no input is given.    *)
(***************************************************************************)
LevelWater ==
    LET lv == MakeLevel(10, 6, [c \in 1..10 |-> 4], 4,
                        <<NewSheep(Px(240), Px(96))>>, <<>>, <<>>)
    IN [lv EXCEPT !.tilemap.data[4 * 10 + 2 + 1] = WaterTile]

GroupingDeltas == {25, 50, 100, 150, 325}
MaxGroupingTicks == 8

RecoveringPlayer ==
    [NewPlayer(LevelWater.playerSpawn.x, LevelWater.playerSpawn.y)
       EXCEPT !.isInvulnerable = TRUE, !.invulnerabilityTime = 25 * TimePerMs]

InitGrouping == InitWith(LevelWater, RecoveringPlayer)

NextGrouping ==
    \/ obs.ticks < MaxGroupingTicks /\ \E d \in GroupingDeltas : Elapse(d)
    \/ FrameBegin
    \/ FrameTick
    \/ FrameUpdate

SpecGrouping == InitGrouping /\ [][NextGrouping]_vars

(***************************************************************************)
(* The reference run from the same state with the same (empty) input: one  *)
(* fixed tick per frame at 60 Hz, that is Game.fixedUpdate followed by     *)
(* Game.update(fixedTimeStep) n times (a paused game runs no frame).       *)
(***************************************************************************)
ReferenceStart ==
    [player |-> RecoveringPlayer, sheep |-> LevelWater.sheep,
     enemies |-> LevelWater.enemies, collectibles |-> LevelWater.collectibles,
     input |-> InputInit, isPaused |-> FALSE, gameOvers |-> 0,
     collectiblesGathered |-> 0, goldenWoolFound |-> 0, log |-> <<>>,
     sheepRescued |-> 0, levelCompletes |-> 0, overlays |-> {}]

RECURSIVE ReferenceRun(_)
ReferenceRun(n) ==
    IF n = 0 THEN ReferenceStart
    ELSE LET before == ReferenceRun(n - 1)
             w == FixedUpdate(before, LevelWater.tilemap, LevelWater.playerSpawn)
         IN IF before.isPaused THEN before
            ELSE SceneUpdate([w EXCEPT !.input = InputUpdate(w.input)],
                             FixedTimeStep, LevelWater.tilemap,
                             Len(LevelWater.sheep))

\* the simulation state C4 names
SimulationState(w) ==
    [x |-> w.player.x, y |-> w.player.y,
     velocityX |-> w.player.velocityX, velocityY |-> w.player.velocityY,
     health |-> w.player.health, isInvulnerable |-> w.player.isInvulnerable,
     sheep |-> w.sheep, enemies |-> w.enemies]

(***************************************************************************)
(* C4: two runs from the same level state that receive the same input on   *)
(* each fixed tick, for the same number of fixed ticks, end in the same    *)
(* simulation state however the ticks are grouped into frames: after any   *)
(* frame, the state is that of the reference run after as many ticks.      *)
(***************************************************************************)
C4_GroupingIndependent ==
    (pc = "idle" /\ ~isPaused)
        => SimulationState(World) = SimulationState(ReferenceRun(obs.ticks))


(***************************************************************************)
(* Specification SpecHerd: the flat level with a sheep within reach of the *)
(* spawn, a second sheep far away and a wolf on patrol; the player may     *)
(* press the action key (rescuing the near sheep) and the right key.       *)
(***************************************************************************)
LevelHerd ==
    MakeLevel(10, 6, [c \in 1..10 |-> 4], 4,
              <<NewSheep(Px(32), Px(96)), NewSheep(Px(248), Px(96))>>,
              <<NewEnemy("wolf", Px(200), Px(88), 200)>>,
              <<NewCollectible(Px(112), Px(100), "berry")>>)

HerdDeltas == {50, 100}
HerdKeys == {"KeyE", "ArrowRight"}
MaxHerdTicks == 8
MaxHerdEvents == 3

InitHerd ==
    InitWith(LevelHerd, NewPlayer(LevelHerd.playerSpawn.x, LevelHerd.playerSpawn.y))

NextHerd ==
    \/ obs.ticks < MaxHerdTicks /\ \E d \in HerdDeltas : Elapse(d)
    \/ FrameBegin
    \/ FrameTick
    \/ FrameUpdate
    \/ obs.events < MaxHerdEvents /\ \E code \in HerdKeys : KeyDown(code)
    \/ obs.events < MaxHerdEvents /\ \E code \in HerdKeys : KeyUp(code)

SpecHerd == InitHerd /\ [][NextHerd]_vars

\* the phase of a call of the tick, as C5 divides the tick
BehaviourCalls == {"handleInput", "updateWithPlayer"}

StatedPhase(call) ==
    CASE call[1] \in BehaviourCalls -> 1
      [] call[1] = "fixedUpdate" /\ call[2] = "sheep" -> 1
      [] call[1] = "fixedUpdate" -> 2
      [] call[1] \in {"applyGravity", "updatePosition"} -> 2
      [] call[1] = "resolveTilemapCollision" -> 3
      [] OTHER -> 4

\* the phase of a call in the order the tick makes them
ActualPhase(call) ==
    CASE call[1] \in BehaviourCalls -> 1
      [] call[1] \in {"applyGravity", "fixedUpdate"} -> 2
      [] call[1] = "updatePosition" -> 3
      [] call[1] = "resolveTilemapCollision" -> 4
      [] call[1] = "enforceWorldBoundaries" -> 5
      [] OTHER -> 6

LevelPillar ==
    MakeLevel(10, 8, [c \in 1..10 |-> IF c <= 3 \/ c = 5 THEN 4 ELSE 8], 4,
              <<NewSheep(Px(32), Px(96))>>, <<>>, <<>>)

FallXs == {40, 60, 93, 95, 104, 116, 128, 140, 147}
FallHeights == {0, 1, 3, 4, 7}
FallSpeeds == {0, 240, 450}
FallDeltas == {50, 100}
MaxFallTicks == 3

InitFall ==
    \E x \in FallXs, d \in FallHeights, v \in FallSpeeds :
        InitWith(LevelPillar,
                 [NewPlayer(Px(x), 4 * TileSize - Px(64) - Px(d))
                    EXCEPT !.velocityY = Vel(v)])

NextFall ==
    \/ obs.ticks < MaxFallTicks /\ \E d \in FallDeltas : Elapse(d)
    \/ FrameBegin
    \/ FrameTick
    \/ FrameUpdate

SpecFall == InitFall /\ [][NextFall]_vars

\* the player as the tick has moved them when the tilemap pass begins
BeforeResolution(p, in) ==
    UpdatePosition(PlayerFixedUpdate(ApplyGravity(HandleInput(p, in))))

\* the rows whose solid tile, exposed on top and under the hitbox of p, has
\* its top edge reached or crossed by the feet of p in this tick
RowsLandedOn(p, in, tm) ==
    LET q == BeforeResolution(p, in)
        b == GetBounds(q)
    IN {row \in 1..(tm.height - 1) :
          /\ p.velocityY >= 0
          /\ p.y + p.height <= row * TileSize
          /\ q.y + q.height >= row * TileSize
          /\ \E col \in 0..(tm.width - 1) :
                /\ IsSolidAt(tm, row, col) /\ ~IsSolidAt(tm, row - 1, col)
                /\ b.x < (col + 1) * TileSize
                /\ b.x + b.width > col * TileSize}

(***************************************************************************)
(* C6: a body falling at any speed up to maxFallSpeed onto a solid tile    *)
(* under its hitbox ends the tick in which its feet reach or cross the     *)
(* tile's top edge with its feet exactly on that edge, velocityY = 0 and   *)
(* isGrounded = true (so its feet never end a tick below the top edge of a *)
(* tile they crossed).                                                     *)
(***************************************************************************)
C6_LandsInTheSameTick ==
    [][(pc = "ticks" /\ obs'.ticks = obs.ticks + 1)
         => \A row \in RowsLandedOn(player, input, level.tilemap) :
               /\ player'.y + player'.height = row * TileSize
               /\ player'.velocityY = 0
               /\ player'.isGrounded]_vars


(***************************************************************************)
(* Specification SpecLedge: the level with the pit right of the spawn, one *)
(* fixed tick per frame (60 Hz); the player may hold the right key, walk   *)
(* off the ledge and press a jump key at any tick.                         *)
(***************************************************************************)
LedgeKeys == {"ArrowRight", "Space"}
MaxLedgeTicks == 22
MaxLedgeEvents == 2

InitLedge ==
    InitWith(LevelPit, NewPlayer(LevelPit.playerSpawn.x, LevelPit.playerSpawn.y))

NextLedge ==
    \/ obs.ticks < MaxLedgeTicks /\ Elapse(FixedTimeStep)
    \/ FrameBegin
    \/ FrameTick
    \/ FrameUpdate
    \/ obs.events < MaxLedgeEvents /\ \E code \in LedgeKeys : KeyDown(code)

SpecLedge == InitLedge /\ [][NextLedge]_vars

\* the step is a fixed tick
IsTick == pc = "ticks" /\ obs'.ticks = obs.ticks + 1

\* the tick performs a jump
JumpFires ==
    /\ player'.jumpsRemaining = 0
    /\ (player.isGrounded \/ player.jumpsRemaining > 0)

(***************************************************************************)
(* C7: after the player has left the ground without jumping, a jump press  *)
(* in a tick within coyoteTime (6 ticks) of the last grounded tick         *)
(* performs a jump, and a press in the first tick after the window has     *)
(* expired performs none.  The player is in the air without having jumped  *)
(* and was grounded n ticks ago exactly when coyoteTimer was set n ticks   *)
(* ago: a press in such a tick jumps iff n <= 6.                           *)
(***************************************************************************)
C7_CoyoteWindow ==
    [][(/\ IsTick
        /\ ~player.isGrounded /\ ~player.isJumping
        /\ player.coyoteTimer > 0
        /\ IsPressed(input, "jump"))
         => (JumpFires <=> player.coyoteTimer > TimerPerTick)]_vars


(***************************************************************************)
(* Specification SpecJump: the flat level with a ceiling 8 px above the    *)
(* player's head (row 1 solid), one fixed tick per frame (60 Hz); the      *)
(* player may press two different jump keys at any ticks: the jump bumps   *)
(* into the ceiling and lands again 8 ticks later.                         *)
(***************************************************************************)
LevelCave ==
    LET lv == MakeLevel(10, 6, [c \in 1..10 |-> 4], 4,
                        <<NewSheep(Px(240), Px(96))>>, <<>>, <<>>)
    IN [lv EXCEPT !.tilemap.data =
            [k \in DOMAIN @ |-> IF (k - 1) \div 10 = 1 THEN 2 ELSE @[k]]]

JumpKeys == {"Space", "ArrowUp"}
MaxJumpTicks == 14
MaxJumpEvents == 2

InitJump ==
    InitWith(LevelCave, NewPlayer(LevelCave.playerSpawn.x, LevelCave.playerSpawn.y))

NextJump ==
    \/ obs.ticks < MaxJumpTicks /\ Elapse(FixedTimeStep)
    \/ FrameBegin
    \/ FrameTick
    \/ FrameUpdate
    \/ obs.events < MaxJumpEvents /\ \E code \in JumpKeys : KeyDown(code)

SpecJump == InitJump /\ [][NextJump]_vars

(***************************************************************************)
(* C8: if jump is pressed while the player is in the air with no jump      *)
(* available and the player becomes grounded within jumpBufferTime (6      *)
(* ticks) of the press, the jump fires on the first tick in which the      *)
(* player is grounded; if the player becomes grounded later, no jump fires *)
(* without a new press.  In a tick without a press: on the first grounded  *)
(* tick after the jump the buffered jump fires iff the press is at most 6  *)
(* ticks old, and no jump fires in any tick once it is older.              *)
(***************************************************************************)
C8_JumpBuffer ==
    [][(IsTick /\ obs.buffered /\ ~IsPressed(input, "jump"))
         => /\ (player.isGrounded /\ player.isJumping)
                 => (JumpFires <=> obs.sincePress < 6)
            /\ ~player.isGrounded => ~JumpFires
            /\ obs.sincePress >= 6 => ~JumpFires]_vars

\* a buffered jump has fired on landing, 6 ticks after its press
C8_Witness ==
    /\ obs.firedAfter = 6
    /\ player.isJumping /\ ~player.isGrounded /\ player.jumpsRemaining = 0

\* the player has landed more than 6 ticks after the press and stands
C8_WitnessExpired ==
    /\ obs.buffered /\ obs.sincePress >= 7
    /\ player.isGrounded /\ ~player.isJumping


(***************************************************************************)
(* Specification SpecRise: the player stands at rest either on the flat    *)
(* level (open sky) or in the cave (ceiling 8 px above the head); frames   *)
(* of one or two ticks; jump and move keys go down and up.                 *)
(***************************************************************************)
RiseLevels == {LevelFlat, LevelCave}
RiseDeltas == {50, 100}
RiseKeys == {"Space", "ArrowRight"}
MaxRiseTicks == 4
MaxRiseEvents == 3

InitRise ==
    \E lv \in RiseLevels :
        InitWith(lv, NewPlayer(lv.playerSpawn.x, lv.playerSpawn.y))

NextRise ==
    \/ obs.ticks < MaxRiseTicks /\ \E d \in RiseDeltas : Elapse(d)
    \/ FrameBegin
    \/ FrameTick
    \/ FrameUpdate
    \/ obs.events < MaxRiseEvents /\ \E code \in RiseKeys : KeyDown(code)
    \/ obs.events < MaxRiseEvents /\ \E code \in RiseKeys : KeyUp(code)

SpecRise == InitRise /\ [][NextRise]_vars

AtRest == player.isGrounded /\ player.velocityX = 0 /\ player.velocityY = 0

\* no solid tile lies where the first step of a jump takes the player's hitbox
ClearAbove ==
    LET b == GetBounds(UpdatePosition(ApplyGravity(Jump(player))))
        tm == level.tilemap
    IN \A row \in 0..(tm.height - 1), col \in 0..(tm.width - 1) :
           ~(IsSolidAt(tm, row, col) /\ CheckAABB(b, TileRect(row, col)))

C10_ReleaseHalvesOnce ==
    [][/\ obs'.halvings <= 1
       /\ (/\ Bindings("jump") \cap input.keysReleased # {}
           /\ Bindings("jump") \cap input'.keysReleased = {}
           /\ player.velocityY < 0)
            => obs.halvings = 1]_vars


(***************************************************************************)
(* Specification SpecSpeed: one of three levels (the pit under a ledge,    *)
(* the water tile under the spawn, the herd with its wolf), 60 Hz frames,  *)
(* the player presses move, jump and action keys: gravity runs to the      *)
(* terminal velocity in the pit, the fall costs a heart, the water bounces *)
(* the player, the wolf knocks the player back.                            *)
(***************************************************************************)
SpeedLevels == {LevelPit, LevelWater, LevelHerd}
SpeedKeys == {"ArrowRight", "Space", "KeyE"}
MaxSpeedTicks == 45
MaxSpeedEvents == 1

InitSpeed ==
    \E lv \in SpeedLevels :
        InitWith(lv, NewPlayer(lv.playerSpawn.x, lv.playerSpawn.y))

NextSpeed ==
    \/ obs.ticks < MaxSpeedTicks /\ Elapse(FixedTimeStep)
    \/ FrameBegin
    \/ FrameTick
    \/ FrameUpdate
    \/ obs.events < MaxSpeedEvents /\ \E code \in SpeedKeys : KeyDown(code)

SpecSpeed == InitSpeed /\ [][NextSpeed]_vars

(***************************************************************************)
(* C11: for every entity and every reachable state at a tick boundary,     *)
(* velocityY <= maxFallSpeed (450), whatever sequence of gravity steps,    *)
(* jumps, knockbacks and hazard bounces has occurred.                      *)
(***************************************************************************)
C11_FallSpeedCapped ==
    /\ player.velocityY <= Vel(MaxFallSpeed)
    /\ \A i \in DOMAIN sheep : sheep[i].velocityY <= Vel(MaxFallSpeed)
    /\ \A i \in DOMAIN enemies : enemies[i].velocityY <= Vel(MaxFallSpeed)

\* the player falls at the terminal velocity
C11_Witness ==
    /\ ~player.isGrounded
    /\ player.velocityY = Vel(MaxFallSpeed)


(***************************************************************************)
(* Specification SpecStop: the flat level, frames of one or two ticks, the *)
(* move keys go down and up: the player runs up to full speed either way   *)
(* and lets go (or holds both keys, an axis of 0).                         *)
(***************************************************************************)
StopDeltas == {50, 100}
StopKeys == {"ArrowRight", "ArrowLeft"}
MaxStopTicks == 18
MaxStopEvents == 2

InitStop ==
    InitWith(LevelFlat, NewPlayer(LevelFlat.playerSpawn.x, LevelFlat.playerSpawn.y))

NextStop ==
    \/ obs.ticks < MaxStopTicks /\ \E d \in StopDeltas : Elapse(d)
    \/ FrameBegin
    \/ FrameTick
    \/ FrameUpdate
    \/ obs.events < MaxStopEvents /\ \E code \in StopKeys : KeyDown(code)
    \/ obs.events < MaxStopEvents /\ \E code \in StopKeys : KeyUp(code)

SpecStop == InitStop /\ [][NextStop]_vars

(***************************************************************************)
(* C12: a grounded player with zero horizontal input reaches velocityX = 0 *)
(* exactly within a bounded number of ticks (at most 7 from the maximum    *)
(* speed of 250) and velocityX then stays exactly 0 while there is no      *)
(* input: after 7 or more consecutive grounded ticks without horizontal    *)
(* input velocityX is 0, and before that it has lost at least the          *)
(* deceleration of every such tick.                                        *)
(***************************************************************************)
C12_DeceleratesToZero ==
    /\ obs.idleTicks >= 7 => player.velocityX = 0
    /\ obs.idleTicks >= 1 =>
         Abs(player.velocityX)
           <= Max(0, obs.idleFrom - obs.idleTicks * RateStep(Deceleration, TRUE))

\* the player has let go at full speed and stands after 7 ticks, not after 6
C12_Witness ==
    /\ obs.idleTicks = 7 /\ obs.idleFrom = Vel(MoveSpeed)
    /\ player.velocityX = 0


(***************************************************************************)
(* Specification SpecDamage: Player.takeDamage on its own.  The player is  *)
(* in any of a set of states of a running level (health, invulnerability   *)
(* and its remaining time, velocity, position); each step is one call of   *)
(* takeDamage with some amount and with no source or a source centred      *)
(* left of, at or right of the player.  log holds the call's arguments.    *)
(***************************************************************************)
DamageAmounts == {0, 1, 2, 5}
DamageSources == {Px(40), Px(88), Px(224), Px(300)}
DamageXs == {Px(64), Px(200)}
DamageVelXs == {0 - Vel(MoveSpeed), 0, Vel(200)}
DamageVelYs == {0 - Vel(250), 0, Vel(MaxFallSpeed)}
DamageTimes == {1, 1500 * TimePerMs, InvulnerabilityDuration}
MaxDamageCalls == 2

DamagePlayer(x, h, inv, t, vx, vy) ==
    [NewPlayer(x, LevelFlat.playerSpawn.y) EXCEPT
       !.health = h, !.isActive = (h > 0),
       !.isInvulnerable = inv, !.invulnerabilityTime = IF inv THEN t ELSE 0,
       !.velocityX = vx, !.velocityY = vy, !.isGrounded = (vy = 0)]

InitDamage ==
    \E x \in DamageXs, h \in 0..MaxHealth, inv \in BOOLEAN, t \in DamageTimes,
       vx \in DamageVelXs, vy \in DamageVelYs :
        /\ h = 0 => inv
        /\ ~inv => t = InvulnerabilityDuration
        /\ InitWith(LevelFlat, DamagePlayer(x, h, inv, t, vx, vy))

TakeDamageCall(amount, hasSource, sourceCenterX) ==
    /\ obs.events < MaxDamageCalls
    /\ player' = TakeDamage(player, amount, hasSource, sourceCenterX)
    /\ log' = << <<"takeDamage", amount, hasSource, sourceCenterX>> >>
    /\ Event
    /\ UNCHANGED <<gameVars, input, sheep, enemies, collectibles, sheepRescued,
                   collectiblesGathered, goldenWoolFound, gameOvers,
                   levelCompletes, overlays, level, data, localStorage, scenes>>

NextDamage ==
    \E amount \in DamageAmounts :
        \/ TakeDamageCall(amount, FALSE, 0)
        \/ \E sx \in DamageSources : TakeDamageCall(amount, TRUE, sx)

SpecDamage == InitDamage /\ [][NextDamage]_vars

(***************************************************************************)
(* C13: takeDamage on a player who is invulnerable changes nothing:        *)
(* health, velocityX, velocityY, isInvulnerable and the remaining          *)
(* invulnerability time are all unchanged, for any amount and any source.  *)
(***************************************************************************)
C13_NoDamageWhileInvulnerable ==
    [][(player.isInvulnerable /\ obs'.events = obs.events + 1)
         => /\ player'.health = player.health
            /\ player'.velocityX = player.velocityX
            /\ player'.velocityY = player.velocityY
            /\ player'.isInvulnerable
            /\ player'.invulnerabilityTime = player.invulnerabilityTime
            /\ player' = player]_vars

\* takeDamage(5, source) was called on a player half way through the
\* invulnerability, who has kept health and velocity
C13_Witness ==
    /\ obs.events = 1 /\ log = << <<"takeDamage", 5, TRUE, Px(300)>> >>
    /\ player.isInvulnerable
    /\ player.invulnerabilityTime = 1500 * TimePerMs
    /\ player.health = 1 /\ player.velocityX = Vel(200) /\ player.velocityY = 0

(***************************************************************************)
(* C14: takeDamage(1, source) on a player who is not invulnerable lowers   *)
(* health by exactly 1 (not below 0), sets isInvulnerable with the timer   *)
(* at invulnerabilityDuration, sets velocityY to -250 and sets velocityX   *)
(* to -200 when the source's centre is to the player's right and +200      *)
(* when it is to the player's left.                                        *)
(***************************************************************************)
C14_DamageAndKnockback ==
    [][(/\ ~player.isInvulnerable /\ obs'.events = obs.events + 1
        /\ log'[1][2] = 1 /\ log'[1][3])
         => /\ player'.health = Max(0, player.health - 1)
            /\ player'.isInvulnerable
            /\ player'.invulnerabilityTime = InvulnerabilityDuration
            /\ player'.velocityY = 0 - Vel(250)
            /\ log'[1][4] > CenterX(player) => player'.velocityX = 0 - Vel(200)
            /\ log'[1][4] < CenterX(player) => player'.velocityX = Vel(200)]_vars

\* a player with 3 hearts was hit once by a source on the right
C14_Witness ==
    /\ obs.events = 1 /\ log = << <<"takeDamage", 1, TRUE, Px(300)>> >>
    /\ player.health = 2 /\ player.isInvulnerable
    /\ player.invulnerabilityTime = InvulnerabilityDuration
    /\ player.velocityX = 0 - Vel(200) /\ player.velocityY = 0 - Vel(250)

\* ... and by a source on the left
C14_WitnessLeft ==
    /\ obs.events = 1 /\ log = << <<"takeDamage", 1, TRUE, Px(40)>> >>
    /\ player.health = 2 /\ player.velocityX = Vel(200)


(***************************************************************************)
(* Specification SpecPit: the ledge over the pit at 60 Hz.  The player is  *)
(* fresh at the spawn, or has just been put back there by an earlier fall  *)
(* (1 or 2 hearts left, invulnerable for 3 s), and walks right off the     *)
(* ledge.                                                                  *)
(***************************************************************************)
MaxPitTicks == 50

RespawnedPlayer(h) ==
    [NewPlayer(LevelPit.playerSpawn.x, LevelPit.playerSpawn.y) EXCEPT
       !.health = h, !.isInvulnerable = TRUE,
       !.invulnerabilityTime = InvulnerabilityDuration]

InitPit ==
    \/ InitWith(LevelPit, NewPlayer(LevelPit.playerSpawn.x, LevelPit.playerSpawn.y))
    \/ \E h \in 1..(MaxHealth - 1) : InitWith(LevelPit, RespawnedPlayer(h))

NextPit ==
    \/ obs.ticks < MaxPitTicks /\ Elapse(FixedTimeStep)
    \/ FrameBegin
    \/ FrameTick
    \/ FrameUpdate
    \/ obs.events < 1 /\ KeyDown("ArrowRight")

SpecPit == InitPit /\ [][NextPit]_vars

\* the player as GameScene.enforceWorldBoundaries finds it in this tick
AtBoundaryCheck ==
    PhaseTilemap(
        PhasePosition(
            PhaseGravity(
                PhaseEnemies(PhaseInput([World EXCEPT !.log = <<>>]), 1))),
        level.tilemap).player

(***************************************************************************)
(* C15: whenever the player's y exceeds the world height at the boundary   *)
(* check of a tick, the player loses one heart and is placed back at the   *)
(* level's spawn point with zero velocity in that same tick (damage +      *)
(* respawn), whatever the player's state at that moment.                   *)
(***************************************************************************)
C15_PitDamagesAndRespawns ==
    [][(IsTick /\ AtBoundaryCheck.y > level.tilemap.height * TileSize)
         => /\ player'.health = player.health - 1
            /\ player'.x = level.playerSpawn.x
            /\ player'.y = level.playerSpawn.y
            /\ player'.velocityX = 0
            /\ player'.velocityY = 0]_vars


(***************************************************************************)
(* C16: once the player's health reaches 0 the player is deactivated       *)
(* (isActive = false and never true again in that level) and no later      *)
(* fixed tick changes the player's position, velocity or health.  Checked  *)
(* under SpecHazard.                                                       *)
(***************************************************************************)
C16_DeadPlayerIsOutOfSimulation ==
    [][/\ player'.health = 0 => ~player'.isActive
       /\ ~player.isActive => ~player'.isActive
       /\ (IsTick /\ player.health = 0)
            => /\ player'.x = player.x /\ player'.y = player.y
               /\ player'.velocityX = player.velocityX
               /\ player'.velocityY = player.velocityY
               /\ player'.health = player.health]_vars


(***************************************************************************)
(* C17: for every sheep, once isRescued is true it stays true in every     *)
(* later state of the level, across any sequence of ticks, frames and      *)
(* interactions.  Checked under SpecHerd.                                  *)
(***************************************************************************)
C17_RescueIsMonotonic ==
    [][\A i \in DOMAIN sheep :
          sheep[i].isRescued => (i \in DOMAIN sheep' /\ sheep'[i].isRescued)]_vars

\* a sheep was rescued, later ticks have dropped it onto the ground and the
\* scene has counted it in a frame update
C17_Witness ==
    \E i \in DOMAIN sheep :
        /\ sheep[i].isRescued /\ sheepRescued >= 1
        /\ ~level.sheep[i].isGrounded /\ sheep[i].isGrounded


(***************************************************************************)
(* Specification SpecOrchard: the flat level with a berry on the spawn, a  *)
(* golden wool two steps to its right and a herb further on; frames of one *)
(* or two ticks; the player walks right and left over them.                *)
(***************************************************************************)
LevelOrchard ==
    MakeLevel(10, 6, [c \in 1..10 |-> 4], 4,
              <<NewSheep(Px(240), Px(96))>>, <<>>,
              <<NewCollectible(Px(76), Px(100), "berry"),
                NewCollectible(Px(100), Px(100), "golden-wool"),
                NewCollectible(Px(124), Px(100), "herb")>>)

OrchardDeltas == {50, 100}
OrchardKeys == {"ArrowRight", "ArrowLeft"}
MaxOrchardTicks == 16
MaxOrchardEvents == 2

InitOrchard ==
    InitWith(LevelOrchard,
             NewPlayer(LevelOrchard.playerSpawn.x, LevelOrchard.playerSpawn.y))

NextOrchard ==
    \/ obs.ticks < MaxOrchardTicks /\ \E d \in OrchardDeltas : Elapse(d)
    \/ FrameBegin
    \/ FrameTick
    \/ FrameUpdate
    \/ obs.events < MaxOrchardEvents /\ \E code \in OrchardKeys : KeyDown(code)
    \/ obs.events < MaxOrchardEvents /\ \E code \in OrchardKeys : KeyUp(code)

SpecOrchard == InitOrchard /\ [][NextOrchard]_vars

CollectedCount(list) ==
    Cardinality({i \in DOMAIN list : list[i].isCollected})

GoldenCount(list) ==
    Cardinality({i \in DOMAIN list :
                    list[i].isCollected /\ list[i].collectibleType = "golden-wool"})

(***************************************************************************)
(* C18: each collectible is collected at most once: once isCollected is    *)
(* true it never reverts, and any later overlap with the player changes    *)
(* neither collectiblesGathered, goldenWoolFound nor the player's energy   *)
(* or health, so collectiblesGathered always equals the number of          *)
(* collectibles with isCollected = true.                                   *)
(***************************************************************************)
C18_CollectedOnce ==
    [][/\ \A i \in DOMAIN collectibles :
             collectibles[i].isCollected => collectibles'[i].isCollected
       /\ collectiblesGathered' = CollectedCount(collectibles')
       /\ goldenWoolFound' = GoldenCount(collectibles')
       /\ CollectedCount(collectibles') = CollectedCount(collectibles)
            => /\ collectiblesGathered' = collectiblesGathered
               /\ goldenWoolFound' = goldenWoolFound
               /\ player'.energy = player.energy
               /\ player'.health = player.health]_vars

\* the berry was collected in the first tick and the player, who has taken
\* the golden wool since, overlaps the berry again ticks later
C18_Witness ==
    /\ obs.ticks >= 4
    /\ collectibles[1].isCollected /\ CollidesWith(player, collectibles[1])
    /\ collectiblesGathered = 2 /\ goldenWoolFound = 1


(***************************************************************************)
(* Patrol: a level with the player on an upper ledge and one enemy on the  *)
(* lower floor, more than 64 px below the player, so that detectPlayer     *)
(* never alerts it and it patrols for the whole run; the keyboard is left  *)
(* alone and the one sheep, on the lower floor, is never rescued.  The enemy is a wolf (80 px/s, which reaches the bound exactly   *)
(* on a tick) or a boar (50 px/s, which steps over it).                    *)
(***************************************************************************)
LevelKennel(kind, range) ==
    MakeLevel(12, 10, [c \in 1..12 |-> IF c <= 3 THEN 4 ELSE 8], 4,
              <<NewSheep(Px(320), Px(224))>>,
              <<NewEnemy(kind, Px(200),
                         8 * TileSize - (IF kind = "wolf" THEN Px(40) ELSE Px(36)),
                         range)>>,
              <<>>)

PatrolKinds == {"wolf", "boar"}
PatrolRanges == {8, 12}
PatrolDeltas == {50, 100}
MaxPatrolTicks == 300

InitPatrol ==
    \E kind \in PatrolKinds, range \in PatrolRanges :
        InitWith(LevelKennel(kind, range),
                 NewPlayer(LevelKennel(kind, range).playerSpawn.x,
                           LevelKennel(kind, range).playerSpawn.y))

NextPatrol ==
    \/ obs.ticks < MaxPatrolTicks /\ \E d \in PatrolDeltas : Elapse(d)
    \/ FrameBegin
    \/ FrameTick
    \/ FrameUpdate

SpecPatrol == InitPatrol /\ [][NextPatrol]_vars

\* patrolPauseDuration, 2.0 s, in fixed ticks of 1/60 s
PatrolPauseTicks == (2000 * TimePerMs) \div FixedTimeStep

(***************************************************************************)
(* C19: a patrolling enemy that reaches a bound of its range is placed at  *)
(* exactly startX + R (walking right) or startX - R (walking left), stands *)
(* there with velocityX = 0 for exactly patrolPauseDuration, 2.0 s of      *)
(* fixed ticks, and then walks the other way.                              *)
(***************************************************************************)
C19_PatrolPause ==
    LET e == enemies[1]
    IN /\ e.isPaused =>
            /\ e.velocityX = 0
            /\ e.x = e.startX + e.patrolDirection * Px(e.patrolRange)
       /\ obs.lastStill \in {0, PatrolPauseTicks}
       /\ e.velocityX # 0 =>
            (e.velocityX > 0) = (obs.turns % 2 = 0)

\* the parts of C19 that the code keeps: the placement at the bound, the
\* stillness during the pause and the reversal after it
C19_PlacedStillAndReversed ==
    LET e == enemies[1]
    IN /\ e.isPaused =>
            /\ e.velocityX = 0
            /\ e.x = e.startX + e.patrolDirection * Px(e.patrolRange)
       /\ e.velocityX # 0 =>
            (e.velocityX > 0) = (obs.turns % 2 = 0)

\* the enemy has paused at the right bound, walked back and paused at the
\* left bound, and walks right again
C19_Witness ==
    /\ obs.turns = 2
    /\ enemies[1].velocityX > 0
    /\ enemies[1].x > enemies[1].startX - Px(enemies[1].patrolRange)

(***************************************************************************)
(* Pause and resume: the flat level with the pause and resume buttons and  *)
(* no keyboard; the next frame comes 1/60 s or more than the cap after the *)
(* last one or after a wait of 20/3 ms, and the buttons are pressed at a   *)
(* frame or after such a wait.                                             *)
(***************************************************************************)
PauseDeltas == {50, 325}
WaitDeltas == {20}
MaxPauseTicks == 5
MaxPauseEvents == 2

InitPause ==
    InitWith(LevelFlat, NewPlayer(LevelFlat.playerSpawn.x, LevelFlat.playerSpawn.y))

NextPause ==
    \/ obs.ticks < MaxPauseTicks /\ \E d \in PauseDeltas : Elapse(d)
    \/ obs.ticks < MaxPauseTicks /\ \E d \in WaitDeltas : Wait(d)
    \/ FrameBegin
    \/ FrameTick
    \/ FrameUpdate
    \/ obs.events < MaxPauseEvents /\ PauseButton
    \/ obs.events < MaxPauseEvents /\ ResumeButton

SpecPause == InitPause /\ [][NextPause]_vars

(***************************************************************************)
(* C20: however long the game was paused, the first unpaused frame after   *)
(* resume() (like every unpaused frame) adds to the accumulator only the   *)
(* time since the later of the last gameLoop call and the resume call,     *)
(* capped at maxDeltaTime, and the ticks it runs are those of the          *)
(* accumulator it had before plus that time.                               *)
(***************************************************************************)
C20_ResumeAddsCappedGap ==
    pc = "ticks" =>
      /\ obs.frameDelta = Min(obs.frameGap, MaxDeltaTime)
      /\ accumulator + obs.ticksThisFrame * FixedTimeStep
           = obs.frameStartAcc + Min(obs.frameGap, MaxDeltaTime)
      /\ accumulator < FixedTimeStep =>
           obs.ticksThisFrame
             = (obs.frameStartAcc + Min(obs.frameGap, MaxDeltaTime))
                 \div FixedTimeStep

\* the first unpaused frame after a pause that lasted over two capped
\* frames, resumed 1/60 s before the frame: it has run one tick
C20_Witness ==
    /\ pc = "ticks"
    /\ obs.longGaps = MaxLongGaps
    /\ obs.frameGap = FixedTimeStep
    /\ accumulator < FixedTimeStep
    /\ obs.ticksThisFrame = 1

(***************************************************************************)
(* Malformed levels: the flat level with a tilemap whose data array is     *)
(* shorter than width * height (the two ground rows are missing) or longer *)
(* by one entry, loaded and run like any other.                            *)
(***************************************************************************)
MalformedLengths == {10 * 4, 10 * 6 + 1}

LevelMalformed(n) ==
    [LevelFlat EXCEPT
       !.tilemap.data = [k \in 1..n |-> IF k \in DOMAIN LevelFlat.tilemap.data
                                        THEN LevelFlat.tilemap.data[k] ELSE 0]]

MalformedDeltas == {50, 100}
MalformedKeys == {"ArrowRight"}
MaxMalformedTicks == 12
MaxMalformedEvents == 2

InitMalformed ==
    \E n \in MalformedLengths :
        InitWith(LevelMalformed(n),
                 NewPlayer(LevelFlat.playerSpawn.x, LevelFlat.playerSpawn.y))

NextMalformed ==
    \/ obs.ticks < MaxMalformedTicks /\ \E d \in MalformedDeltas : Elapse(d)
    \/ FrameBegin
    \/ FrameTick
    \/ FrameUpdate
    \/ obs.events < MaxMalformedEvents /\ \E code \in MalformedKeys : KeyDown(code)
    \/ obs.events < MaxMalformedEvents /\ \E code \in MalformedKeys : KeyUp(code)

SpecMalformed == InitMalformed /\ [][NextMalformed]_vars

(***************************************************************************)
(* C21: a level whose tilemap data length differs from width * height      *)
(* fails at load time: no entity is spawned and no tick runs on it.        *)
(***************************************************************************)
C21_MalformedLevelRejected ==
    Len(level.tilemap.data) # level.tilemap.width * level.tilemap.height =>
        /\ obs.ticks = 0
        /\ sheep = <<>> /\ enemies = <<>> /\ collectibles = <<>>
        /\ ~player.isActive

(***************************************************************************)
(* The horizontal pass as a function: the flat level with a wall two tiles *)
(* high on column 5 (x from 160 to 192), or on columns 5 and 6; a body     *)
(* with the player's hitbox, standing (or crouching) on the ground or in   *)
(* the air with its feet 24 px into the wall's upper tile, at some x       *)
(* beside, partly inside or wholly inside the wall, with some velocityX.   *)
(* Each step is one call of resolveHorizontalCollision; log holds the x    *)
(* and the velocityX that the body had before it.                          *)
(***************************************************************************)
WallColumns == {{5}, {5, 6}}

LevelWall(cols) ==
    [LevelFlat EXCEPT
       !.tilemap.data = [k \in DOMAIN LevelFlat.tilemap.data |->
                           IF ((k - 1) % 10) \in cols /\ ((k - 1) \div 10) \in {2, 3}
                           THEN 2 ELSE LevelFlat.tilemap.data[k]]]

WallXs == {Px(120), Px(124), Px(125), Px(130), Px(148), Px(151), Px(152),
           Px(153), Px(156), Px(170), Px(179), Px(180), Px(190), Px(211),
           Px(212)}
WallYs == {Px(24), Px(64)}
WallVelXs == {0 - Vel(MoveSpeed), 0, Vel(MoveSpeed)}
MaxWallCalls == 1

WallBody(x, y, vx, crouching) ==
    LET p == [NewPlayer(x, y) EXCEPT !.velocityX = vx, !.isGrounded = (y = Px(64))]
    IN IF crouching
       THEN [p EXCEPT !.isCrouching = TRUE,
                      !.hitboxHeight = Px(40), !.hitboxOffsetY = Px(24)]
       ELSE p

InitWall ==
    \E cols \in WallColumns, x \in WallXs, y \in WallYs, vx \in WallVelXs,
       crouching \in BOOLEAN :
        /\ crouching => y = Px(64)
        /\ InitWith(LevelWall(cols), WallBody(x, y, vx, crouching))

ResolveHorizontalCall ==
    /\ obs.events < MaxWallCalls
    /\ player' = ResolveHorizontalCollision(player, level.tilemap)
    /\ log' = << <<"resolveHorizontalCollision", player.x, player.velocityX>> >>
    /\ Event
    /\ UNCHANGED <<gameVars, input, sheep, enemies, collectibles, sheepRescued,
                   collectiblesGathered, goldenWoolFound, gameOvers,
                   levelCompletes, overlays, level, data, localStorage, scenes>>

NextWall == ResolveHorizontalCall

SpecWall == InitWall /\ [][NextWall]_vars

\* the solid tiles of the band of the pass that the hitbox overlaps
Touched == HorizontalHits(player, level.tilemap)

FlushLeftOf(e, col) == GetBounds(e).x + GetBounds(e).width = col * TileSize
FlushRightOf(e, col) == GetBounds(e).x = (col + 1) * TileSize
CentreLeftOf(e, col) ==
    2 * GetBounds(e).x + GetBounds(e).width < 2 * col * TileSize + TileSize

(***************************************************************************)
(* C22 as stated: the push follows the sign of velocityX.  A body moving   *)
(* right that overlaps a solid tile is clamped to the tile's left edge, a  *)
(* body moving left to the tile's right edge, a body with velocityX = 0 is *)
(* not moved, and velocityX is 0 after any contact.                        *)
(***************************************************************************)
C22_PushFollowsVelocity ==
    [][obs'.events = obs.events + 1 =>
         /\ (Touched # {} /\ player.velocityX > 0) =>
               \E rc \in Touched : FlushLeftOf(player', rc[2])
         /\ (Touched # {} /\ player.velocityX < 0) =>
               \E rc \in Touched : FlushRightOf(player', rc[2])
         /\ player.velocityX = 0 => player'.x = player.x
         /\ Touched # {} => player'.velocityX = 0]_vars

(***************************************************************************)
(* C22, amended: the push follows the side of the tile on which the hitbox *)
(* centre lies, whatever the sign of velocityX (zero included): the body   *)
(* is clamped to the left edge of an overlapped tile whose centre is right *)
(* of the hitbox centre or to the right edge of one whose centre is not;   *)
(* x is unchanged only without contact; velocityX is 0 after any contact.  *)
(***************************************************************************)
C22_PushFollowsCentre ==
    [][obs'.events = obs.events + 1 =>
         /\ Touched # {} =>
               \E rc \in Touched :
                   IF CentreLeftOf(player, rc[2])
                   THEN FlushLeftOf(player', rc[2])
                   ELSE FlushRightOf(player', rc[2])
         /\ Touched = {} => player' = player
         /\ Touched # {} => player'.velocityX = 0
         /\ player'.y = player.y /\ player'.velocityY = player.velocityY]_vars

\* a body with velocityX = 0 that overlapped the wall has been moved to the
\* wall's right edge
C22_Witness ==
    /\ obs.events = 1
    /\ log = << <<"resolveHorizontalCollision", Px(156), 0>> >>
    /\ player.x = Px(192) - player.hitboxOffsetX
    /\ level = LevelWall({5})

\* a body moving right whose centre was past the tile's centre has been
\* moved on to the wall's right edge
C22_WitnessThrough ==
    /\ obs.events = 1
    /\ log = << <<"resolveHorizontalCollision", Px(152), Vel(MoveSpeed)>> >>
    /\ player.x = Px(192) - player.hitboxOffsetX
    /\ level = LevelWall({5})

(***************************************************************************)
(* C23: when the hitbox overlaps a solid tile in the horizontal pass, the  *)
(* body is placed with its hitbox flush against the left edge of the tile  *)
(* (the last overlapped one in the scan) if the hitbox centre x is left of *)
(* the tile centre x, and flush against its right edge otherwise, however  *)
(* deep the hitbox is in the tile on either axis.                          *)
(***************************************************************************)
C23_SideByCentre ==
    [][(obs'.events = obs.events + 1 /\ Touched # {}) =>
         LET col == LastHit(Touched)[2]
         IN /\ CentreLeftOf(player, col) => FlushLeftOf(player', col)
            /\ ~CentreLeftOf(player, col) => FlushRightOf(player', col)]_vars

\* a body in the air, 28 px into the wall from the left and 24 px into it
\* from above, with its centre exactly on the tile's: flush right
C23_Witness ==
    /\ obs.events = 1
    /\ log[1][2] = Px(152)
    /\ player.y = Px(24)
    /\ player.x = Px(192) - player.hitboxOffsetX
    /\ level = LevelWall({5})

\* a body 27 px into the wall with its centre 1 px left of the tile's:
\* flush left
C23_WitnessLeft ==
    /\ obs.events = 1
    /\ log[1][2] = Px(151)
    /\ player.x = Px(160) - player.hitboxWidth - player.hitboxOffsetX

(***************************************************************************)
(* Resting: the level with the ledge over the pit (ground on columns 0-2), *)
(* the player walking right or left from the spawn and stopping wherever   *)
(* the keys are released, at 60 Hz and 30 Hz.                              *)
(***************************************************************************)
RestDeltas == {50, 100}
RestKeys == {"ArrowRight", "ArrowLeft"}
MaxRestTicks == 16
MaxRestEvents == 2

InitRest ==
    InitWith(LevelPit, NewPlayer(LevelPit.playerSpawn.x, LevelPit.playerSpawn.y))

NextRest ==
    \/ obs.ticks < MaxRestTicks /\ \E d \in RestDeltas : Elapse(d)
    \/ FrameBegin
    \/ FrameTick
    \/ FrameUpdate
    \/ obs.events < MaxRestEvents /\ \E code \in RestKeys : KeyDown(code)
    \/ obs.events < MaxRestEvents /\ \E code \in RestKeys : KeyUp(code)

SpecRest == InitRest /\ [][NextRest]_vars

\* e stands with its feet exactly on the top edge of a solid tile under its
\* hitbox, with no velocity
RestsOnTile(e, tm) ==
    LET b == GetBounds(e)
        feetY == b.y + b.height
        row == feetY \div TileSize
    IN /\ e.isGrounded /\ e.velocityX = 0 /\ e.velocityY = 0
       /\ feetY = row * TileSize
       /\ \E col \in (b.x \div TileSize)..((b.x + b.width - 1) \div TileSize) :
              IsSolidAt(tm, row, col)

NoInput == input.keys = {} /\ input.keysPressed = {} /\ input.touchButtons = {}

(***************************************************************************)
(* C24: a body at rest on a solid tile (feet exactly on the tile's top     *)
(* edge, velocityY = 0, no input, nothing pushing it) is still grounded    *)
(* with the same y and velocityY = 0 at the end of every following tick.   *)
(***************************************************************************)
C24_RestIsStable ==
    [][(IsTick /\ RestsOnTile(player, level.tilemap) /\ NoInput) =>
         /\ player'.isGrounded
         /\ player'.y = player.y
         /\ player'.velocityY = 0
         /\ RestsOnTile(player', level.tilemap)]_vars

\* the player has walked towards the ledge, stopped with part of the hitbox
\* over the pit and rested there for several ticks
C24_Witness ==
    /\ obs.idleTicks >= 5
    /\ RestsOnTile(player, level.tilemap)
    /\ player.x > Px(72)
    /\ GetBounds(player).x + GetBounds(player).width > Px(96)

\* the hitbox of e overlaps a solid tile
Embedded(e, tm) ==
    LET b == GetBounds(e)
    IN \E row \in (b.y \div TileSize)..((b.y + b.height - 1) \div TileSize),
          col \in (b.x \div TileSize)..((b.x + b.width - 1) \div TileSize) :
           IsSolidAt(tm, row, col) /\ CheckAABB(b, TileRect(row, col))

(***************************************************************************)
(* C25: at the end of every tick no player, enemy or rescued sheep has its *)
(* hitbox overlapping a solid tile.                                        *)
(***************************************************************************)
C25_NothingEmbedded ==
    obs.ticks >= 1 =>
        /\ ~Embedded(player, level.tilemap)
        /\ \A i \in DOMAIN enemies : ~Embedded(enemies[i], level.tilemap)
        /\ \A i \in DOMAIN sheep :
               sheep[i].isRescued => ~Embedded(sheep[i], level.tilemap)

(***************************************************************************)
(* Attacks: the flat level with one enemy that has caught the player.  The *)
(* run starts at the end of a frame late in an encounter: the enemy is in  *)
(* state attack, overlapping the player, with its attack ready or nearly   *)
(* so; the player, hit before (and perhaps healed since), has 2 or 3       *)
(* hearts and one or two 60 Hz frames of invulnerability left.             *)
(***************************************************************************)
BiteKinds == {"wolf", "boar"}
BiteOffsets == {0 - Px(20), 0, Px(20)}
BiteCooldowns == {0, TimerPerTick, 2 * TimerPerTick}
BiteTimes == {FixedTimeStep, 2 * FixedTimeStep}
BiteDeltas == {50, 100}
MaxBiteTicks == 6

\* the enemy is entered in the level as the encounter has left it
LevelDen(kind, dx, cd) ==
    MakeLevel(10, 6, [c \in 1..10 |-> 4], 4,
              <<NewSheep(Px(240), Px(96))>>,
              <<[NewEnemy(kind, Px(128) + dx,
                          4 * TileSize - (IF kind = "wolf" THEN Px(40) ELSE Px(36)),
                          200)
                   EXCEPT !.state = "attack", !.isAlerted = TRUE,
                          !.isGrounded = TRUE, !.attackCooldown = cd,
                          !.startX = Px(200), !.lastX = Px(200)]>>,
              <<>>)

InitBite ==
    \E kind \in BiteKinds, dx \in BiteOffsets, cd \in BiteCooldowns,
       t \in BiteTimes, h \in 2..MaxHealth :
        InitWith(LevelDen(kind, dx, cd),
                 [NewPlayer(Px(128), 4 * TileSize - Px(64)) EXCEPT
                    !.health = h, !.isGrounded = TRUE,
                    !.isInvulnerable = TRUE, !.invulnerabilityTime = t])

NextBite ==
    \/ obs.ticks < MaxBiteTicks /\ \E d \in BiteDeltas : Elapse(d)
    \/ FrameBegin
    \/ FrameTick
    \/ FrameUpdate

SpecBite == InitBite /\ [][NextBite]_vars

(***************************************************************************)
(* C26: no single enemy hit and no single tick takes more than 1 heart     *)
(* from the player: a player with 2 or 3 hearts has at most one heart less *)
(* and is alive at the end of the next tick.                               *)
(***************************************************************************)
C26_OneHeartPerHit ==
    [][(IsTick /\ player.health >= 2) =>
         /\ player'.health >= player.health - 1
         /\ player'.isActive]_vars

\* a hit of the player by the touch of the enemy does take one heart
C26_ContactTakesOneHeart ==
    [][(IsTick /\ player.health >= 2 /\ enemies[1].attackCooldown > TimerPerTick) =>
         /\ player'.health >= player.health - 1
         /\ player'.isActive]_vars

(***************************************************************************)
(* C27: jumpsRemaining is raised only in ticks that the player begins      *)
(* grounded, and then to maxJumps; 0 <= jumpsRemaining <= maxJumps in      *)
(* every reachable state.                                                  *)
(***************************************************************************)
C27_JumpCount ==
    /\ [](player.jumpsRemaining >= 0 /\ player.jumpsRemaining <= MaxJumps)
    /\ [][player'.jumpsRemaining > player.jumpsRemaining =>
            /\ IsTick
            /\ player.isGrounded
            /\ player'.jumpsRemaining = MaxJumps]_vars

\* the player has jumped, has landed with no jump left, and the next tick
\* has refilled the count
C27_Witness ==
    /\ player.isGrounded /\ ~player.isJumping
    /\ player.jumpsRemaining = MaxJumps
    /\ obs.pressSeen >= 1

C27_WitnessSpent ==
    /\ ~player.isGrounded /\ player.isJumping /\ player.jumpsRemaining = 0

(***************************************************************************)
(* Specification SpecShield: the level with the water tile under the       *)
(* spawn.  The first tick hurts the fresh player, who is thrown back and   *)
(* stays invulnerable; frames of 70 ms and frames at or over the cap       *)
(* follow, and the game may be paused and resumed once.                    *)
(***************************************************************************)
ShieldDeltas == {210, 300, 325}
MaxShieldTicks == 190
MaxShieldEvents == 2

InitShield ==
    InitWith(LevelWater,
             NewPlayer(LevelWater.playerSpawn.x, LevelWater.playerSpawn.y))

NextShield ==
    \/ obs.ticks < MaxShieldTicks /\ \E d \in ShieldDeltas : Elapse(d)
    \/ FrameBegin
    \/ FrameTick
    \/ FrameUpdate
    \/ obs.events < MaxShieldEvents /\ PauseButton
    \/ obs.events < MaxShieldEvents /\ ResumeButton

SpecShield == InitShield /\ [][NextShield]_vars

C28_WitnessExact ==
    /\ ~player.isInvulnerable
    /\ obs.shielded = InvulnerabilityDuration

(***************************************************************************)
(* Specification SpecAmbush: the flat level with one enemy that the level  *)
(* data places on the ground near the spawn or farther along; the player   *)
(* may walk; frames of one or two ticks.                                   *)
(***************************************************************************)
AmbushKinds == {"wolf", "boar"}
AmbushOffsets == {Px(10), Px(70), Px(150)}
AmbushDeltas == {50, 100}
AmbushKeys == {"ArrowLeft", "ArrowRight"}
MaxAmbushTicks == 10
MaxAmbushEvents == 2

LevelLair(kind, dx) ==
    MakeLevel(10, 6, [c \in 1..10 |-> 4], 4,
              <<NewSheep(Px(240), Px(96))>>,
              <<NewEnemy(kind, LevelFlat.playerSpawn.x + dx,
                         4 * TileSize - (IF kind = "wolf" THEN Px(40) ELSE Px(36)),
                         200)>>,
              <<>>)

InitAmbush ==
    \E kind \in AmbushKinds, dx \in AmbushOffsets :
        InitWith(LevelLair(kind, dx),
                 NewPlayer(LevelFlat.playerSpawn.x, LevelFlat.playerSpawn.y))

NextAmbush ==
    \/ obs.ticks < MaxAmbushTicks /\ \E d \in AmbushDeltas : Elapse(d)
    \/ FrameBegin
    \/ FrameTick
    \/ FrameUpdate
    \/ obs.events < MaxAmbushEvents /\ \E code \in AmbushKeys : KeyDown(code)
    \/ obs.events < MaxAmbushEvents /\ \E code \in AmbushKeys : KeyUp(code)

SpecAmbush == InitAmbush /\ [][NextAmbush]_vars

(***************************************************************************)
(* C29: from the end of one tick to the end of the next an enemy's state   *)
(* changes only from patrol to chase, from chase to attack, from attack to *)
(* chase or from chase to patrol; never from patrol to attack or from      *)
(* attack to patrol.                                                       *)
(***************************************************************************)
EnemyStateSteps ==
    {<<"patrol", "chase">>, <<"chase", "attack">>,
     <<"attack", "chase">>, <<"chase", "patrol">>}

C29_StateSteps ==
    [][\A i \in DOMAIN enemies :
          (i \in DOMAIN enemies' /\ enemies'[i].state # enemies[i].state)
            => <<enemies[i].state, enemies'[i].state>> \in EnemyStateSteps]_vars

\* what holds: no enemy goes from attack to patrol within one tick
C29_AttackNeverToPatrol ==
    [][\A i \in DOMAIN enemies :
          (i \in DOMAIN enemies' /\ enemies[i].state = "attack")
            => enemies'[i].state # "patrol"]_vars

(***************************************************************************)
(* Specification SpecCharge: the flat level with a boar on the ground      *)
(* within charge distance of the spawn, near the left world edge or in the *)
(* middle, with a patrol range of 20 or 30 px; no input; frames of one or  *)
(* two ticks.                                                              *)
(***************************************************************************)
ChargeStarts == {Px(70), Px(150)}
ChargeRanges == {20, 30}
ChargeDeltas == {50, 100}
MaxChargeRunTicks == 28

LevelSty(x, range) ==
    MakeLevel(10, 6, [c \in 1..10 |-> 4], 4,
              <<NewSheep(Px(240), Px(96))>>,
              <<NewEnemy("boar", x, 4 * TileSize - Px(36), range)>>,
              <<>>)

InitCharge ==
    \E x \in ChargeStarts, range \in ChargeRanges :
        InitWith(LevelSty(x, range),
                 NewPlayer(LevelFlat.playerSpawn.x, LevelFlat.playerSpawn.y))

NextCharge ==
    \/ obs.ticks < MaxChargeRunTicks /\ \E d \in ChargeDeltas : Elapse(d)
    \/ FrameBegin
    \/ FrameTick
    \/ FrameUpdate

SpecCharge == InitCharge /\ [][NextCharge]_vars

\* the ticks that chargeSpeed needs for the longest charge, from 1.5 times
\* the patrol range on one side of startX to 1.5 times on the other
ChargeTicksBound(e) == (3 * e.patrolRange * 60) \div ChargeSpeed + 2

(***************************************************************************)
(* C30: every charge of a boar ends: while isCharging is set the           *)
(* chargeDirection stays as locked, the charge lasts no more ticks than    *)
(* chargeSpeed needs for the longest travel (3 times the patrol range),    *)
(* also for a boar blocked by a wall or the world edge, and when it ends   *)
(* the cooldown of 2 s starts; a charge begins only with the cooldown run  *)
(* out.                                                                    *)
(***************************************************************************)
C30_ChargeEnds ==
    /\ [](Len(enemies) >= 1 => obs.chargeTicks <= ChargeTicksBound(enemies[1]))
    /\ [][(IsTick /\ Len(enemies) >= 1 /\ Len(enemies') >= 1) =>
            /\ (enemies[1].isCharging /\ enemies'[1].isCharging)
                 => enemies'[1].chargeDirection = enemies[1].chargeDirection
            /\ (enemies[1].isCharging /\ ~enemies'[1].isCharging)
                 => enemies'[1].chargeCooldown = ChargeCooldown - TimerPerTick
            /\ (~enemies[1].isCharging /\ enemies'[1].isCharging)
                 => enemies[1].chargeCooldown <= 0]_vars

\* what holds: a charge that is not blocked ends within the bound
C30_FreeChargeEnds ==
    (Len(enemies) >= 1 /\ enemies[1].startX = Px(150))
        => obs.chargeTicks <= ChargeTicksBound(enemies[1])

(***************************************************************************)
(* C31: in a tick that an enemy begins in state attack the player loses    *)
(* health only if the enemy's attack cooldown runs out in that tick and    *)
(* the two hitboxes overlap, and the cooldown is then set to 1/attackRate  *)
(* and falls by no more than the tick's dt per tick, so that the next      *)
(* attack is no sooner than 1/attackRate seconds later; an enemy in attack *)
(* whose distance to the player exceeds 50 is in chase after the tick.     *)
(***************************************************************************)
C31_AttackOnCooldown ==
    [][(IsTick /\ Len(enemies) >= 1 /\ Len(enemies') >= 1
          /\ enemies[1].state = "attack") =>
            /\ player'.health < player.health
                 => /\ enemies[1].attackCooldown - TimerPerTick <= 0
                    /\ CollidesWith(enemies[1], player)
                    /\ enemies'[1].attackCooldown = AttackPeriod
            /\ enemies'[1].attackCooldown
                 >= Min(enemies[1].attackCooldown - TimerPerTick, 0 - TimerPerTick)
            /\ DistanceGreater(enemies[1], player, 50)
                 => enemies'[1].state = "chase"]_vars

\* what holds: the same with the loss of health limited to that of
\* Enemy.attack (the enemy's damage, more than the one heart of a touch)
C31_AttackCallOnCooldown ==
    [][(IsTick /\ Len(enemies) >= 1 /\ Len(enemies') >= 1
          /\ enemies[1].state = "attack") =>
            /\ player'.health < player.health - 1
                 => /\ enemies[1].attackCooldown - TimerPerTick <= 0
                    /\ CollidesWith(enemies[1], player)
                    /\ enemies'[1].attackCooldown = AttackPeriod
            /\ enemies'[1].attackCooldown
                 >= Min(enemies[1].attackCooldown - TimerPerTick, 0 - TimerPerTick)
            /\ DistanceGreater(enemies[1], player, 50)
                 => enemies'[1].state = "chase"]_vars

(***************************************************************************)
(* Specification SpecStray: a level 16 tiles wide whose ground ends in a   *)
(* pit from column 13 on, with a boar of patrol range 8 at x = 330 or      *)
(* 340.  The run starts with the player, away from the spawn, at x = 395   *)
(* between the boar and the pit; the player may walk on into the pit and   *)
(* is put back at the spawn at x = 64.  Frames of one or two ticks.        *)
(***************************************************************************)
StrayStarts == {Px(330), Px(340)}
StrayDeltas == {50, 100}
StrayKeys == {"ArrowRight"}
MaxStrayTicks == 60
MaxStrayEvents == 1

LevelGorge(x) ==
    MakeLevel(16, 6, [c \in 1..16 |-> IF c <= 13 THEN 4 ELSE 6], 4,
              <<NewSheep(Px(32), Px(96))>>,
              <<NewEnemy("boar", x, 4 * TileSize - Px(36), 8)>>,
              <<>>)

InitStray ==
    \E x \in StrayStarts :
        InitWith(LevelGorge(x),
                 [NewPlayer(Px(395), 4 * TileSize - Px(64)) EXCEPT
                    !.isGrounded = TRUE])

NextStray ==
    \/ obs.ticks < MaxStrayTicks /\ \E d \in StrayDeltas : Elapse(d)
    \/ FrameBegin
    \/ FrameTick
    \/ FrameUpdate
    \/ obs.events < MaxStrayEvents /\ \E code \in StrayKeys : KeyDown(code)

SpecStray == InitStray /\ [][NextStray]_vars

(***************************************************************************)
(* C32: from the end of one tick to the end of the next an enemy's x       *)
(* changes by no more than the movement of one tick (at most that of the   *)
(* greatest enemy speed, chargeSpeed; collision and boundary corrections   *)
(* only take movement back), also in the tick in which it gives up a chase *)
(* and returns to patrol, and an enemy in state patrol is within           *)
(* startX +/- patrolRange.                                                 *)
(***************************************************************************)
C32_EnemyStep ==
    /\ [][(IsTick /\ Len(enemies) >= 1 /\ Len(enemies') >= 1)
            => Abs(enemies'[1].x - enemies[1].x) <= Vel(ChargeSpeed)]_vars
    /\ [](\A i \in DOMAIN enemies :
            enemies[i].state = "patrol"
              => Abs(enemies[i].x - enemies[i].startX)
                   <= Px(enemies[i].patrolRange))



(***************************************************************************)
(* Specification SpecFold: the flat level with a wolf on patrol and three  *)
(* sheep: one that overlaps the player at the spawn, one in the air left   *)
(* of the world margin and one far away.  The player may walk to either    *)
(* side and press the action key, which rescues a sheep within reach.      *)
(***************************************************************************)
LevelFold ==
    MakeLevel(10, 6, [c \in 1..10 |-> 4], 4,
              <<NewSheep(Px(80), Px(96)), NewSheep(Px(8), Px(40)),
                NewSheep(Px(248), Px(96))>>,
              <<NewEnemy("wolf", Px(200), Px(88), 200)>>,
              <<>>)

FoldDeltas == {50, 100}
FoldKeys == {"KeyE", "ArrowRight", "ArrowLeft"}
MaxFoldTicks == 8
MaxFoldEvents == 3

InitFold ==
    InitWith(LevelFold, NewPlayer(LevelFold.playerSpawn.x, LevelFold.playerSpawn.y))

NextFold ==
    \/ obs.ticks < MaxFoldTicks /\ \E d \in FoldDeltas : Elapse(d)
    \/ FrameBegin
    \/ FrameTick
    \/ FrameUpdate
    \/ obs.events < MaxFoldEvents /\ \E code \in FoldKeys : KeyDown(code)
    \/ obs.events < MaxFoldEvents /\ \E code \in FoldKeys : KeyUp(code)

SpecFold == InitFold /\ [][NextFold]_vars

(***************************************************************************)
(* C33: a sheep that is not rescued does not move: no step changes the x   *)
(* or y of a sheep that is not rescued after it, whatever the player and   *)
(* the enemies do.                                                         *)
(***************************************************************************)
C33_IdleSheepStay ==
    [][\A i \in DOMAIN sheep :
          (i \in DOMAIN sheep' /\ ~sheep'[i].isRescued)
            => /\ ~sheep[i].isRescued
               /\ sheep'[i].x = sheep[i].x
               /\ sheep'[i].y = sheep[i].y]_vars

\* ticks have run with the player moving inside the first sheep, which is
\* not rescued, while the sheep in the air beyond the margin is not either
\* and another sheep has been rescued and has moved
C33_Witness ==
    /\ obs.ticks >= 4
    /\ ~sheep[1].isRescued /\ CollidesWith(player, sheep[1])
    /\ player.velocityX # 0
    /\ ~sheep[2].isRescued /\ sheep[2].x < Px(Margin)

C33_WitnessRescued ==
    /\ \E i \in DOMAIN sheep : sheep[i].isRescued /\ sheep[i].x # LevelFold.sheep[i].x
    /\ \E i \in DOMAIN sheep : ~sheep[i].isRescued

(***************************************************************************)
(* SceneManager.switchTo('game', {level}) for the level that is loaded, as *)
(* UIManager.startLevel calls it.  The call runs up to its first await:    *)
(* it sets isTransitioning and runs exit() of the current scene, which     *)
(* empties the entity lists and sets player to null (the variable player   *)
(* keeps the object that was the player).  The two continuations follow as *)
(* steps of their own, between two callbacks; frames may run in between.   *)
(***************************************************************************)
SwitchTo ==
    /\ pc = "idle" /\ rafDue = 0
    /\ ~scenes.isTransitioning
    /\ scenes' = [scenes EXCEPT !.isTransitioning = TRUE,
                                !.hasPlayer = IF scenes.hasScene THEN FALSE ELSE @,
                                !.step = "exited"]
    /\ IF scenes.hasScene
       THEN sheep' = <<>> /\ enemies' = <<>> /\ collectibles' = <<>>
       ELSE UNCHANGED <<sheep, enemies, collectibles>>
    /\ Event
    /\ UNCHANGED <<gameVars, input, player, sheepRescued, collectiblesGathered,
                   goldenWoolFound, gameOvers, levelCompletes, overlays, log,
                   level, data, localStorage>>

\* after the await of exit(): currentScene = nextScene, and enter(data) up
\* to its await, that is the whole of loadLevel
SwitchEnter ==
    /\ pc = "idle"
    /\ scenes.step = "exited"
    /\ scenes' = [scenes EXCEPT !.hasScene = TRUE, !.hasPlayer = TRUE,
                                !.step = "loaded"]
    /\ player' = NewPlayer(level.playerSpawn.x, level.playerSpawn.y)
    /\ sheep' = level.sheep
    /\ enemies' = level.enemies
    /\ collectibles' = level.collectibles
    /\ sheepRescued' = 0
    /\ collectiblesGathered' = 0
    /\ goldenWoolFound' = 0
    /\ UNCHANGED <<gameVars, input, gameOvers, levelCompletes, overlays, log,
                   level, data, localStorage, obs>>

\* after the await of loadLevel: the rest of enter (camera, HUD) and of
\* switchTo, isTransitioning = false
SwitchDone ==
    /\ pc = "idle"
    /\ scenes.step = "loaded"
    /\ scenes' = [scenes EXCEPT !.isTransitioning = FALSE, !.step = "none"]
    /\ UNCHANGED <<gameVars, input, sceneVars, level, data, localStorage, obs>>

(***************************************************************************)
(* Specification SpecSwitch: the flat level with the game loop running;    *)
(* the player may walk, and the level may be loaded again by switchTo      *)
(* while frames of one or two ticks go on.                                 *)
(***************************************************************************)
SwitchDeltas == {50, 100}
SwitchKeys == {"ArrowRight"}
MaxSwitchTicks == 6
MaxSwitchEvents == 3

InitSwitch ==
    InitWith(LevelFlat, NewPlayer(LevelFlat.playerSpawn.x, LevelFlat.playerSpawn.y))

NextSwitch ==
    \/ obs.ticks < MaxSwitchTicks /\ \E d \in SwitchDeltas : Elapse(d)
    \/ FrameBegin
    \/ FrameTick
    \/ FrameUpdate
    \/ obs.events < MaxSwitchEvents /\ \E code \in SwitchKeys : KeyDown(code)
    \/ obs.events < MaxSwitchEvents /\ SwitchTo
    \/ SwitchEnter
    \/ SwitchDone

SpecSwitch == InitSwitch /\ [][NextSwitch]_vars

(***************************************************************************)
(* C34: while a switchTo is in progress no fixedUpdate and no update       *)
(* reaches the scene: the ticks and the update of a frame that runs during *)
(* the transition leave the scene as it is, so whenever a tick or an       *)
(* update changes the scene, the scene has its player and the entity lists *)
(* of the level in full.                                                   *)
(***************************************************************************)
C34_NoUpdateWhileSwitching ==
    /\ [][(pc = "ticks" /\ scenes.isTransitioning) => UNCHANGED sceneVars]_vars
    /\ [][(pc = "ticks" /\ sceneVars' # sceneVars) =>
            /\ scenes.step = "none" /\ scenes.hasPlayer
            /\ Len(sheep) = Len(level.sheep)
            /\ Len(enemies) = Len(level.enemies)
            /\ Len(collectibles) = Len(level.collectibles)]_vars

\* inside a frame whose tick found the level loaded again but the
\* transition unfinished
C34_Witness ==
    /\ pc = "ticks" /\ obs.ticksThisFrame >= 1
    /\ scenes.isTransitioning /\ scenes.step = "loaded"
    /\ input.keys # {}

\* inside a frame whose tick found the lists emptied by exit()
C34_WitnessCleared ==
    /\ pc = "ticks" /\ obs.ticksThisFrame >= 1
    /\ scenes.step = "exited" /\ sheep = <<>>

(***************************************************************************)
(* Game.start and Game.stop, as UIManager calls them between two frames    *)
(* (startLevel, restartLevel, quitToMenu).  stop only clears isRunning:    *)
(* the callback that is registered stays registered and returns at its     *)
(* first line when it runs.                                                *)
(***************************************************************************)
Start ==
    /\ pc = "idle" /\ rafDue = 0
    /\ IF isRunning
       THEN /\ isPaused' = FALSE
            /\ Event
            /\ UNCHANGED <<isRunning, sinceLast, rafPending>>
       ELSE /\ isRunning' = TRUE
            /\ isPaused' = FALSE
            /\ sinceLast' = 0
            /\ rafPending' = rafPending + 1
            /\ obs' = [obs EXCEPT !.events = @ + 1, !.sinceMark = 0]
    /\ UNCHANGED <<accumulator, deltaTime, rafDue, pc, input, sceneVars, level, data, localStorage,
                   scenes>>

Stop ==
    /\ pc = "idle" /\ rafDue = 0
    /\ isRunning' = FALSE
    /\ Event
    /\ UNCHANGED <<isPaused, accumulator, deltaTime, sinceLast, rafPending,
                   rafDue, pc, input, sceneVars, level, data, localStorage, scenes>>

(***************************************************************************)
(* Specification SpecLoop: the flat level with the game loop running; the  *)
(* loop may be stopped, started, paused and resumed between frames of one  *)
(* tick or longer than the cap.                                            *)
(***************************************************************************)
LoopDeltas == {50, 325}
MaxLoopTicks == 8
MaxLoopEvents == 4

InitLoop ==
    InitWith(LevelFlat, NewPlayer(LevelFlat.playerSpawn.x, LevelFlat.playerSpawn.y))

NextLoop ==
    \/ obs.ticks < MaxLoopTicks /\ \E d \in LoopDeltas : Elapse(d)
    \/ FrameBegin
    \/ FrameTick
    \/ FrameUpdate
    \/ obs.events < MaxLoopEvents /\ Start
    \/ obs.events < MaxLoopEvents /\ Stop
    \/ obs.events < MaxLoopEvents /\ PauseButton
    \/ obs.events < MaxLoopEvents /\ ResumeButton

SpecLoop == InitLoop /\ [][NextLoop]_vars

(***************************************************************************)
(* C35: at most one gameLoop callback chain is live: counting the callback *)
(* that is running, at most one frame callback is registered at any time,  *)
(* however start, stop, pause and resume are called between the frames.    *)
(***************************************************************************)
C35_OneCallbackChain ==
    rafPending + rafDue + (IF pc = "ticks" THEN 1 ELSE 0) <= 1

\* what holds: two callbacks of one frame get the same timestamp, so the
\* second finds a delta of 0 and runs no tick
C35_NoDoubleRate ==
    [][(pc = "idle" /\ pc' = "ticks" /\ sinceLast = 0)
         => accumulator' = accumulator]_vars

(***************************************************************************)
(* C36: game over is raised exactly once for the death of the player: not  *)
(* before the player is dead, by the end of the frame in which the player  *)
(* dies, and not a second time in a later tick or in the update of that    *)
(* frame.                                                                  *)
(***************************************************************************)
C36_GameOverOnce ==
    /\ gameOvers <= 1
    /\ gameOvers >= 1 => ~player.isActive
    /\ (pc = "idle" /\ ~player.isActive) => gameOvers = 1

\* what holds: game over is raised only for a dead player and is raised by
\* the end of the frame of the death
C36_GameOverRaised ==
    /\ gameOvers >= 1 => ~player.isActive
    /\ (pc = "idle" /\ ~player.isActive) => gameOvers >= 1

(***************************************************************************)
(* Specification SpecMeadow: the flat level with its only sheep within     *)
(* reach of the spawn and a wolf standing next to the spawn, touching the  *)
(* player.  The player enters with 1 or 3 hearts (with 1 the wolf's touch  *)
(* kills the player in the first tick) and may press the action key        *)
(* (rescuing the sheep, which completes the level) and the pause key; the  *)
(* pause and resume buttons may be clicked.                                *)
(***************************************************************************)
LevelMeadow ==
    MakeLevel(10, 6, [c \in 1..10 |-> 4], 4,
              <<NewSheep(Px(32), Px(96))>>,
              <<NewEnemy("wolf", Px(80), Px(88), 200)>>, <<>>)

MeadowHealths == {1, 3}
MeadowDeltas == {50, 100}
MeadowKeys == {"KeyE", "Escape"}
MaxMeadowTicks == 6
MaxMeadowEvents == 4

InitMeadow ==
    \E h \in MeadowHealths :
        InitWith(LevelMeadow,
                 [NewPlayer(LevelMeadow.playerSpawn.x, LevelMeadow.playerSpawn.y)
                    EXCEPT !.health = h])

NextMeadow ==
    \/ obs.ticks < MaxMeadowTicks /\ \E d \in MeadowDeltas : Elapse(d)
    \/ FrameBegin
    \/ FrameTick
    \/ FrameUpdate
    \/ obs.events < MaxMeadowEvents /\ \E code \in MeadowKeys : KeyDown(code)
    \/ obs.events < MaxMeadowEvents /\ \E code \in MeadowKeys : KeyUp(code)
    \/ obs.events < MaxMeadowEvents /\ PauseButton
    \/ obs.events < MaxMeadowEvents /\ ResumeButton

SpecMeadow == InitMeadow /\ [][NextMeadow]_vars

C37_WitnessDead ==
    /\ sheepRescued = Len(level.sheep)
    /\ ~player.isActive
    /\ gameOvers >= 1 /\ levelCompletes = 0
    /\ pc = "idle"


(***************************************************************************)
(* Specification SpecGlade: the flat level with a heart collectible right  *)
(* of the spawn and a berry left of it; the player enters with 1 to 3      *)
(* hearts and may hold the right or the left key.                          *)
(***************************************************************************)
LevelGlade ==
    MakeLevel(10, 6, [c \in 1..10 |-> 4], 4,
              <<NewSheep(Px(240), Px(96))>>, <<>>,
              <<NewCollectible(Px(100), Px(100), "heart"),
                NewCollectible(Px(30), Px(100), "berry")>>)

GladeDeltas == {50, 100}
GladeKeys == {"ArrowRight", "ArrowLeft"}
MaxGladeTicks == 12
MaxGladeEvents == 2

InitGlade ==
    \E h \in 1..MaxHealth :
        InitWith(LevelGlade,
                 [NewPlayer(LevelGlade.playerSpawn.x, LevelGlade.playerSpawn.y)
                    EXCEPT !.health = h])

NextGlade ==
    \/ obs.ticks < MaxGladeTicks /\ \E d \in GladeDeltas : Elapse(d)
    \/ FrameBegin
    \/ FrameTick
    \/ FrameUpdate
    \/ obs.events < MaxGladeEvents /\ \E code \in GladeKeys : KeyDown(code)
    \/ obs.events < MaxGladeEvents /\ \E code \in GladeKeys : KeyUp(code)

SpecGlade == InitGlade /\ [][NextGlade]_vars

(***************************************************************************)
(* C38: the tick in which the player collects a heart collectible raises   *)
(* the player's health by the heal amount of the item, capped at           *)
(* maxHealth.                                                              *)
(***************************************************************************)
C38_HeartHeals ==
    [][\A i \in DOMAIN collectibles :
          (/\ collectibles[i].collectibleType = "heart"
           /\ ~collectibles[i].isCollected
           /\ collectibles'[i].isCollected)
          => player'.health
               = Min(player.health + collectibles[i].healAmount, MaxHealth)]_vars

\* what the code does with a heart: the health stays and the energy is
\* raised by the default amount of 5
C38_HeartFeedsEnergy ==
    [][\A i \in DOMAIN collectibles :
          (/\ collectibles[i].collectibleType = "heart"
           /\ ~collectibles[i].isCollected
           /\ collectibles'[i].isCollected)
          => /\ player'.health = player.health
             /\ collectibles[i].healAmount = 5
             /\ player'.energy = Min(player.energy + 5, MaxEnergy)]_vars

\* margin <= x and x + width <= worldWidth - margin
InsideWorld(e, tm) ==
    /\ Px(Margin) <= e.x
    /\ e.x + e.width <= tm.width * TileSize - Px(Margin)

(***************************************************************************)
(* C39: at the end of every tick the player, every enemy and every rescued *)
(* sheep lies within the horizontal world bounds: margin <= x and          *)
(* x + width <= worldWidth - margin, with margin = 32.                     *)
(***************************************************************************)
C39_InsideWorld ==
    obs.ticks >= 1 =>
        /\ InsideWorld(player, level.tilemap)
        /\ \A i \in DOMAIN enemies : InsideWorld(enemies[i], level.tilemap)
        /\ \A i \in DOMAIN sheep :
               sheep[i].isRescued => InsideWorld(sheep[i], level.tilemap)

\* what holds: the player and the enemies end every tick inside the bounds
C39_PlayerAndEnemiesInside ==
    obs.ticks >= 1 =>
        /\ InsideWorld(player, level.tilemap)
        /\ \A i \in DOMAIN enemies : InsideWorld(enemies[i], level.tilemap)

(***************************************************************************)
(* Saved progress: GameState.completeLevel is called, any number of times  *)
(* and in any order, for the levels 1 to 5 and for the level numbers 0 and *)
(* 6 that have no record, with the summary of a run with 1 sheep and 2     *)
(* collectibles or of one with 3 sheep and a golden wool; between two      *)
(* calls the page may be loaded anew, which constructs the GameState from  *)
(* the local storage.                                                      *)
(***************************************************************************)
ProgressLevels == 0..(LastLevel + 1)
ProgressRuns == {<<1, 2, 0>>, <<3, 0, 1>>}

InitProgress ==
    InitWith(LevelFlat, NewPlayer(LevelFlat.playerSpawn.x, LevelFlat.playerSpawn.y))

CompleteLevelCall(levelNum, run) ==
    /\ data' = CompleteLevel(data, levelNum, run[1], run[2], run[3])
    /\ localStorage' = IF levelNum \in DOMAIN data.levelData
                       THEN Save(data') ELSE localStorage
    /\ UNCHANGED <<gameVars, input, sceneVars, level, obs, scenes>>

\* new GameState() of a freshly loaded page, before a level is started
Reload ==
    /\ data' = Load(localStorage)
    /\ UNCHANGED <<gameVars, input, sceneVars, level, obs, scenes, localStorage>>

NextProgress ==
    \/ \E levelNum \in ProgressLevels, run \in ProgressRuns :
          CompleteLevelCall(levelNum, run)
    \/ Reload

SpecProgress == InitProgress /\ [][NextProgress]_vars

Unlocked(d) == {d.unlockedLevels[i] : i \in DOMAIN d.unlockedLevels}

\* from progress d to progress e nothing is lost
Grows(d, e) ==
    /\ \A n \in DOMAIN d.levelData :
          /\ d.levelData[n].completed => e.levelData[n].completed
          /\ e.levelData[n].sheepRescued >= d.levelData[n].sheepRescued
          /\ e.levelData[n].collectibles >= d.levelData[n].collectibles
          /\ e.levelData[n].goldenWool >= d.levelData[n].goldenWool
    /\ Unlocked(d) \subseteq Unlocked(e)
    /\ \A m \in Unlocked(e) \ Unlocked(d) :
          m > 1 /\ e.levelData[m - 1].completed

WellFormed(d) ==
    /\ Cardinality(Unlocked(d)) = Len(d.unlockedLevels)
    /\ \A m \in Unlocked(d) :
          /\ m \in 1..LastLevel
          /\ m > 1 => d.levelData[m - 1].completed

(***************************************************************************)
(* C40: saved progress is monotone.  From one completeLevel call to the    *)
(* next, the progress that the call saves loses nothing: no level's        *)
(* completed flag, sheepRescued, collectibles or goldenWool goes down and  *)
(* no unlocked level is lost; the list of unlocked levels holds no level   *)
(* twice and none above 5, and a level n + 1 enters it only with level n   *)
(* completed.                                                              *)
(***************************************************************************)
C40_ProgressMonotone ==
    /\ [](WellFormed(data) /\ WellFormed(localStorage.item))
    /\ [][Grows(localStorage.item, localStorage'.item)]_vars

\* what holds: the records of the levels never go down, in the data and in
\* the saved item, the list is well formed, and a call of completeLevel
\* loses nothing of the data it finds
C40_RecordsMonotone ==
    /\ [](WellFormed(data) /\ WellFormed(localStorage.item))
    /\ [][/\ \A n \in DOMAIN data.levelData :
                /\ localStorage.item.levelData[n].completed
                      => localStorage'.item.levelData[n].completed
                /\ localStorage'.item.levelData[n].sheepRescued
                      >= localStorage.item.levelData[n].sheepRescued
                /\ localStorage'.item.levelData[n].collectibles
                      >= localStorage.item.levelData[n].collectibles
                /\ localStorage'.item.levelData[n].goldenWool
                      >= localStorage.item.levelData[n].goldenWool
          /\ localStorage' # localStorage => Grows(data, data')]_vars

=============================================================================
